---- MODULE Spec2Model ----
(***************************************************************************)
(* rds-port-forward: the paginated inventory client and the four-stage     *)
(* Target Resolver (cluster -> service -> task -> container), with the     *)
(* shared mediator state the stages write.                                 *)
(*                                                                         *)
(* Every resolver method is an async function that runs on one thread; a   *)
(* method is one action, from its call to the settlement of the promise it *)
(* returns.  The answers of the inventory API and of the interactive       *)
(* prompts are inputs, drawn from bounded sets.                            *)
(***************************************************************************)
EXTENDS Integers, Sequences, FiniteSets, TLC

(***************************************************************************)
(* Bounds of the model.                                                    *)
(***************************************************************************)
MaxClusters == 2
MaxServices == 2
MaxTasks == 2
MaxContainers == 2
MaxPages == 2
MaxArns == 3
MaxBatchSize == 2
MaxEnv == 2

(***************************************************************************)
(* JavaScript values.                                                      *)
(***************************************************************************)
undefined == "undefined"

\* !v for a string-or-undefined value
Falsy(v) == v = undefined \/ v = ""

SeqsUpTo(S, n) == UNION {[1..k -> S] : k \in 0..n}

Last(s) == s[Len(s)]


\* an object literal and an array, as paginate's Array.isArray sees them
Obj(fields) == [array |-> FALSE, fields |-> fields]
Arr(items) == [array |-> TRUE, items |-> items]

\* 'key' in input
HasKey(input, key) == key \in DOMAIN input

\* variant: the token of the previous response is dropped
WithoutNextToken(input, nextToken) == ("nextToken" :> undefined) @@ input

\* { ...input, nextToken }
WithNextToken(input, nextToken) == ("nextToken" :> nextToken) @@ input

(***************************************************************************)
(* The remote inventory: ARNs are kept as their '/'-separated segments.    *)
(***************************************************************************)
ClusterNames == {"prod", "dev"}
ServiceNames == {"web", "web-api", "web-api-v2"}
ServiceHints == {undefined, "", "web", "cache"}
TaskIds == {"abc123", "def456"}

ClusterArn(name) == <<"arn:aws:ecs:region:123456789012:cluster", name>>
ServiceArn(cluster, name) == <<"arn:aws:ecs:region:123456789012:service", cluster, name>>
TaskArn(cluster, id) == <<"arn:aws:ecs:region:123456789012:task", cluster, id>>

\* arn.split('/')
Split(arn) == arn
\* variant: the part of the ARN before the first slash
ClusterArnPrefix(arn) == Split(arn)[1]
\* arn.split('/')[1]
ClusterShortName(arn) == Split(arn)[2]
\* arn.split('/').pop()
PopSegment(arn) == Last(Split(arn))

TaskDefOf(id) ==
  IF id = "abc123" THEN "arn:aws:ecs:region:123456789012:task-definition/app:1"
  ELSE "arn:aws:ecs:region:123456789012:task-definition/worker:7"

Containers ==
  { [name |-> "app", runtimeId |-> "rt-0a1b", image |-> "app:latest"],
    [name |-> "sidecar", runtimeId |-> "rt-9f8e", image |-> "envoy:1"],
    [name |-> "init", runtimeId |-> undefined, image |-> "busybox"] }

\* a task the API reports without a container list has no containers field
NoList == [absent |-> TRUE]

ContainerLists == {[list |-> cs] : cs \in SeqsUpTo(Containers, MaxContainers)} \cup {NoList}

\* the container the inventory runs under a name
ContainerNamed(name) == CHOOSE c \in Containers : c.name = name

\* a described task
DescribedTask(arn, containers) ==
  IF HasKey(containers, "list")
  THEN [taskArn |-> arn, taskDefinitionArn |-> TaskDefOf(PopSegment(arn)),
        containers |-> containers.list]
  ELSE [taskArn |-> arn, taskDefinitionArn |-> TaskDefOf(PopSegment(arn))]

DescribedTasks(arns, lists) == { DescribedTask(arn, cs) : arn \in arns, cs \in lists }

\* what a describe of the identifiers ids may return: tasks among those asked
\* for, at most as many as asked for, in any order
DescribeAnswers(arns, lists) ==
  SeqsUpTo(DescribedTasks({arns[i] : i \in 1..Len(arns)}, lists), Len(arns))

(***************************************************************************)
(* Paginated inventory client (client/index.ts, client/util.ts).           *)
(* client.send is the inventory API: a list request is answered by the     *)
(* next page of a script of pages, a describe request by the next response *)
(* of a script of responses.  A page or response [reject |-> TRUE] is a    *)
(* request the transport rejects.                                          *)
(***************************************************************************)
DESCRIBE_TASKS_MAX_ARNS == 100

UNKNOWN_INPUT == "Unknown ECS client input type"
DESCRIBE_FAILED == "Failed to describe some tasks: "
NO_TASKS_RETURNED == "No tasks were returned by AWS API"
TYPE_ERROR == "TypeError: undefined is not iterable"
API_ERROR == "ECS request rejected"

Reject == [reject |-> TRUE]

Token(n) == "token-" \o ToString(n)

PageVariants(items, token) ==
  {[items |-> items, nextToken |-> token]}
  \cup (IF items = <<>> THEN {[nextToken |-> token]} ELSE {})

RECURSIVE Scripts(_, _, _)
\* the ways the API may serve the list items in at most k pages, the n-th page
\* of the whole answer first
Scripts(items, k, n) ==
  { <<p>> : p \in PageVariants(items, undefined) \cup PageVariants(items, "") }
  \cup (IF k <= 1 THEN {}
        ELSE UNION { { <<p>> \o rest :
                         p \in PageVariants(SubSeq(items, 1, cut), Token(n)),
                         rest \in Scripts(SubSeq(items, cut + 1, Len(items)), k - 1, n + 1) } :
                     cut \in 0..Len(items) })

PageScripts(items) == Scripts(items, MaxPages, 1) \cup {<<Reject>>}

isListTasks(input) == HasKey(input, "desiredStatus")
isDescribeTasks(input) == HasKey(input, "taskArns")
\* variant: a cluster field alone makes a list-services query
isListServicesAnyCluster(input) == HasKey(input, "cluster") /\ ~isListTasks(input)

isListServices(input) ==
  HasKey(input, "cluster") /\ ~isDescribeTasks(input) /\ ~isListTasks(input)
isListClusters(input) ==
  Cardinality(DOMAIN input) = 1 /\ HasKey(input, "nextToken")

\* the branch of the do-while body that input takes
CommandOf(input) ==
  IF isListTasks(input) THEN "ListTasksCommand"
  ELSE IF isListServices(input) THEN "ListServicesCommand"
  ELSE IF isListClusters(input) THEN "ListClustersCommand"
  ELSE "none"

Thrown(error, sent) == [error |-> error, value |-> <<>>, sent |-> sent]
Returned(value, sent) == [error |-> undefined, value |-> value, sent |-> sent]

RECURSIVE PageLoop(_, _, _, _, _)
PageLoop(commandInput, pages, nextToken, allResults, sent) ==
  LET input == WithNextToken(commandInput, nextToken)
      command == CommandOf(input)
      request == [command |-> command, input |-> input]
  IN IF command = "none" THEN Thrown(UNKNOWN_INPUT, sent)
     ELSE IF pages = <<>> \/ HasKey(Head(pages), "reject")
       THEN Thrown(API_ERROR, Append(sent, request))
     ELSE LET response == Head(pages)
              results == IF HasKey(response, "items")
                         THEN allResults \o response.items ELSE allResults
          IN IF Falsy(response.nextToken)
             THEN Returned(results, Append(sent, request))
             ELSE PageLoop(commandInput, Tail(pages), response.nextToken,
                           results, Append(sent, request))

paginateClientCommand(commandInput, pages) ==
  PageLoop(commandInput, pages, undefined, <<>>, <<>>)

Min(a, b) == IF a < b THEN a ELSE b

\* variant: all the identifiers go into one batch
getBatchWhole(arns, size) == IF arns = <<>> THEN <<>> ELSE <<arns>>

RECURSIVE getBatch(_, _)
\* the batches the generator yields, in order
getBatch(arns, size) ==
  IF arns = <<>> THEN <<>>
  ELSE <<SubSeq(arns, 1, Min(size, Len(arns)))>>
       \o getBatch(SubSeq(arns, Min(size, Len(arns)) + 1, Len(arns)), size)

\* what the caller's array holds once getBatch has yielded n batches: the first
\* definition in the file splices a copy (Array.from(arns)), the second
\* splices the array it was handed
arnsAfterBatches(arns, size, n, inPlace) ==
  IF inPlace THEN SubSeq(arns, Min(n * size, Len(arns)) + 1, Len(arns)) ELSE arns

\* variant: the failures of a response are not looked at
HasFailuresIgnored(response) == FALSE

\* response.failures && response.failures.length > 0
HasFailures(response) == HasKey(response, "failures") /\ Len(response.failures) > 0

RECURSIVE DescribeLoop(_, _, _, _, _)
DescribeLoop(batches, clusterName, responses, tasks, sent) ==
  IF batches = <<>> THEN Returned(tasks, sent)
  ELSE LET request == [command |-> "DescribeTasksCommand",
                       input |-> [tasks |-> Head(batches), cluster |-> clusterName]]
           sentNow == Append(sent, request)
       IN IF responses = <<>> \/ HasKey(Head(responses), "reject")
          THEN Thrown(API_ERROR, sentNow)
          ELSE LET response == Head(responses)
               IN IF HasFailures(response)
                  THEN Thrown(DESCRIBE_FAILED \o ToString(response.failures), sentNow)
                  ELSE IF ~HasKey(response, "tasks") \/ Len(response.tasks) = 0
                  THEN Thrown(NO_TASKS_RETURNED, sentNow)
                  ELSE DescribeLoop(Tail(batches), clusterName, Tail(responses),
                                    tasks \o response.tasks, sentNow)

\* rawInput is the value paginate hands over: destructuring an array, or an
\* object without taskArns, leaves taskArns undefined and Array.from throws
paginateDescribeTasksRequest(rawInput, responses, batchSize) ==
  IF rawInput.array \/ ~HasKey(rawInput.fields, "taskArns")
  THEN Thrown(TYPE_ERROR, <<>>)
  ELSE DescribeLoop(getBatch(rawInput.fields.taskArns, batchSize),
                    rawInput.fields.clusterName, responses, <<>>, <<>>)

\* api: the scripts the inventory API answers this call from
paginate(input, api) ==
  IF input.array
  THEN paginateDescribeTasksRequest(input, api.responses, DESCRIBE_TASKS_MAX_ARNS)
  ELSE paginateClientCommand(input.fields, api.pages)

(***************************************************************************)
(* Interactive prompts (@inquirer/prompts) and fuzzy search (fuse.js).     *)
(* A select is answered by the index of the picked choice, a confirm by    *)
(* "yes" or "no"; the answer Interrupt is the user closing the prompt,     *)
(* which makes the prompt throw ExitPromptError.                           *)
(***************************************************************************)
Interrupt == 0
EXIT_PROMPT == "ExitPromptError"
NO_CHOICES == "ValidationError: [select prompt] No selectable choices"
UNDEFINED_READ == "TypeError: Cannot read properties of undefined"

ConfirmAnswers == {"yes", "no", "interrupt"}

\* a call of select, with the index of the choice picked, and a call of confirm,
\* with the answer given
SelectPrompt(message, choices, picked) ==
  [kind |-> "select", message |-> message, choices |-> choices, picked |-> picked]
ConfirmPrompt(message, confirmed) ==
  [kind |-> "confirm", message |-> message, confirmed |-> confirmed]

\* the words of a name, the unit the fuzzy search of the model compares
Tokens(name) ==
  CASE name = "web" -> <<"web">>
    [] name = "web-api" -> <<"web", "api">>
    [] name = "web-api-v2" -> <<"web", "api", "v2">>
    [] name = "cache" -> <<"cache">>
    [] OTHER -> <<>>

IsPrefix(a, b) == Len(a) <= Len(b) /\ SubSeq(b, 1, Len(a)) = a

\* Fuse's match of a pattern in a name, and its score (lower is closer)
FuseMatches(pattern, name) ==
  Tokens(pattern) # <<>> /\ IsPrefix(Tokens(pattern), Tokens(name))
FuseScore(pattern, name) == Len(Tokens(name)) - Len(Tokens(pattern))

RECURSIVE InsertByScore(_, _, _)
InsertByScore(sorted, name, pattern) ==
  IF sorted = <<>> THEN <<name>>
  ELSE IF FuseScore(pattern, name) < FuseScore(pattern, Head(sorted))
       THEN <<name>> \o sorted
       ELSE <<Head(sorted)>> \o InsertByScore(Tail(sorted), name, pattern)

RECURSIVE SortByScore(_, _)
SortByScore(names, pattern) ==
  IF names = <<>> THEN <<>>
  ELSE InsertByScore(SortByScore(SubSeq(names, 1, Len(names) - 1), pattern),
                     names[Len(names)], pattern)

\* variant: a search without a match falls back on the whole list
FuseSearchOrAll(list, pattern) ==
  IF SelectSeq(list, LAMBDA name : FuseMatches(pattern, name)) = <<>> THEN list
  ELSE SortByScore(SelectSeq(list, LAMBDA name : FuseMatches(pattern, name)), pattern)

\* new Fuse(list, {shouldSort: true}).search(pattern).map(match => match.item)
FuseSearch(list, pattern) ==
  SortByScore(SelectSeq(list, LAMBDA name : FuseMatches(pattern, name)), pattern)

(***************************************************************************)
(* Messages of the Target Resolver (resolver/uiText.ts).                   *)
(***************************************************************************)
\* export const enum targetText
targetText ==
  [CLUSTER_NOT_RESOLVED |->
     "Cluster name is not set. Did you run resolveCluster() first?",
   CONFIRM_FUZZY_SERVICE |->
     "Found a similarly named service, should we use it?",
   CONTAINER_NOT_RESOLVED |->
     "Target container runtime ID was not resolved",
   FUZZY_SERVICE_NOT_CONFIRMED |->
     "Cannot use the only potentially matching service",
   MULTIPLE_FUZZY_SERVICES_FOUND_PROMPT |->
     "Multiple similarly named services found, select the one to use",
   NO_CLUSTERS |->
     "No ECS clusters found",
   NO_CONTAINERS_IN_TASK |->
     "No containers were found inside the specified task",
   NO_SERVICES |->
     "No services found in the cluster",
   NO_TASKS |->
     "No running tasks matching the input parameters were found",
   SELECT_CLUSTER_PROMPT |->
     "Select the target ECS cluster",
   SELECT_CONTAINER_PROMPT |->
     "Select the container that will be used for port forwarding",
   SELECT_TASK_PROMPT |->
     "Select a matching task",
   SERVICE_NOT_MATCHED |->
     "No services with matching or similar name were found",
   TASK_ID_NOT_RESOLVED |->
     "Task ID is not set. Did you run resolveTask() first?",
   TASK_NOT_FOUND |->
     "Task with the provided ID was not found. Did it get evicted in the meantime?"]

(***************************************************************************)
(* State: the TargetResolver's fields, the mediator the stages share, the  *)
(* position of the caller in the chain, and the record of the last call.   *)
(***************************************************************************)
VARIABLES
  client,              \* what the resolver's import of paginate is bound to
  clusterName,         \* TargetResolver.clusterName
  taskId,              \* TargetResolver.taskId
  containerRuntimeId,  \* TargetResolver.containerRuntimeId
  serviceName,         \* TargetResolver.serviceName
  processedArgs,       \* mediator.processedArgs, in insertion order
  target,              \* mediator.target
  pc,                  \* the last stage the caller ran, or Failed
  evicted,             \* the inventory: the task of taskId has stopped running
  rawArgs,             \* mediator.rawArgs: the forwarding arguments of the command line
  dbHost,              \* ForwardingParamsResolver.dbHost
  port,                \* ForwardingParamsResolver.port
  localPort,           \* ForwardingParamsResolver.localPort
  os,                  \* the process: the child runSession spawned, the signals, the exit
  last                 \* the last call: its result and what it did on the way

vars == <<client, clusterName, taskId, containerRuntimeId, serviceName,
          processedArgs, target, pc, evicted, rawArgs, dbHost, port, localPort, os,
          last>>

\* variant: processedArgs is replaced by an object that holds the new entry only
SetArgAlone(args, key, arg) ==
  <<[key |-> key, skippable |-> arg.skippable, value |-> arg.value]>>

\* processedArgs[key] = arg: an existing key keeps its place, a new one is appended
SetArg(args, key, arg) ==
  LET entry == [key |-> key, skippable |-> arg.skippable, value |-> arg.value]
  IN IF \E i \in 1..Len(args) : args[i].key = key
     THEN [i \in 1..Len(args) |-> IF args[i].key = key THEN entry ELSE args[i]]
     ELSE Append(args, entry)

HasArg(args, key) == \E i \in 1..Len(args) : args[i].key = key
ArgOf(args, key) == args[CHOOSE i \in 1..Len(args) : args[i].key = key]

\* rawArgs of a command line: the four arguments the forwarding stages read
Args(host, hostFromEnv, remote, local) ==
  ("db-host" :> host) @@ ("db-host-from-container-env" :> hostFromEnv)
    @@ ("port" :> remote) @@ ("local-port" :> local)

NoForwardingArgs == Args(undefined, undefined, undefined, undefined)

Rank(state) ==
  CASE state = "Unstarted" -> 0
    [] state = "ClusterResolved" -> 1
    [] state = "ServiceResolved" -> 2
    [] state = "TaskResolved" -> 3
    [] state = "ContainerResolved" -> 4
    [] state = "DbHostResolved" -> 5
    [] state = "RemotePortResolved" -> 6
    [] state = "LocalPortResolved" -> 7
    [] OTHER -> 8

\* the chain is forward only: a stage runs at most once, after no later stage,
\* and nothing runs after a stage has thrown
MayRun(stage) == Rank(pc) < Rank(stage)

\* no child has been spawned, no signal received, the process has not exited
NoSession ==
  [child |-> "none", pid |-> undefined, command |-> <<>>, signals |-> <<>>,
   kills |-> <<>>, code |-> undefined, signal |-> undefined, exit |-> undefined]

Init ==
  /\ os = NoSession
  /\ client \in {"stub", "real"}
  /\ clusterName = undefined
  /\ taskId = undefined
  /\ containerRuntimeId = undefined
  /\ serviceName = undefined
  /\ processedArgs = <<>>
  /\ target = [taskId |-> undefined, taskDefinition |-> undefined,
               containerName |-> undefined, clusterName |-> undefined]
  /\ pc = "Unstarted"
  /\ evicted = FALSE
  /\ rawArgs = NoForwardingArgs
  /\ dbHost = undefined
  /\ port = undefined
  /\ localPort = undefined
  /\ last = [op |-> "constructor", arg |-> undefined, error |-> undefined,
             ret |-> undefined, calls |-> <<>>, sent |-> <<>>, prompts |-> <<>>,
             results |-> <<>>]

\* the paginate the resolver calls: the client above, or the double the unit
\* tests put in its place, which returns what the test queued
Inventory(input, stubbed, api) ==
  IF client = "stub"
  THEN IF HasKey(stubbed, "reject") THEN Thrown(API_ERROR, <<>>)
       ELSE Returned(stubbed.value, <<>>)
  ELSE paginate(input, api)

\* the scripts a list call may be answered from; the double consults none, so
\* one script and the rejection stand for all
ListScripts(items) ==
  IF client = "stub" THEN {<<[items |-> items, nextToken |-> undefined]>>, <<Reject>>}
  ELSE PageScripts(items)

\* the answer to a list call: the items, served by the script
ListAnswer(items, script) ==
  [stubbed |-> IF script = <<Reject>> THEN Reject ELSE [value |-> items],
   api |-> [pages |-> script, responses |-> <<>>]]

\* a describe call that sends no request is given no answer
Answered(input) ==
  client = "stub" \/ paginate(input, [pages |-> <<Reject>>, responses |-> <<Reject>>]).sent # <<>>

\* the answer to a describe call for arns: the tasks, or a rejected request;
\* the API reports every identifier it does not return as a failure
DescribeAnswer(arns, tasks, rejected) ==
  [stubbed |-> IF rejected THEN Reject ELSE [value |-> tasks],
   api |-> [pages |-> <<>>,
            responses |->
              IF rejected THEN <<Reject>>
              ELSE << [tasks |-> tasks,
                       failures |-> SelectSeq([i \in 1..Len(arns) |-> [arn |-> arns[i], reason |-> "MISSING"]],
                                              LAMBDA f : \A j \in 1..Len(tasks) :
                                                           PopSegment(tasks[j].taskArn) # PopSegment(f.arn))] >>]]

Settled(op, arg, error, ret, calls, sent, prompts, results) ==
  last' = [op |-> op, arg |-> arg, error |-> error, ret |-> ret, calls |-> calls,
           sent |-> sent, prompts |-> prompts, results |-> results]

\* variant: the error is swallowed and the caller goes on
ThrowsAndGoesOn(op, arg, error, calls, sent, prompts, results) ==
  /\ Settled(op, arg, error, undefined, calls, sent, prompts, results)
  /\ UNCHANGED <<os, rawArgs, dbHost, port, localPort, client, clusterName, taskId, containerRuntimeId, serviceName,
                 processedArgs, target, pc, evicted>>

\* the call throws before it has written anything
Throws(op, arg, error, calls, sent, prompts, results) ==
  /\ Settled(op, arg, error, undefined, calls, sent, prompts, results)
  /\ pc' = "Failed"
  /\ UNCHANGED <<os, rawArgs, dbHost, port, localPort, client, clusterName, taskId, containerRuntimeId, serviceName,
                 processedArgs, target, evicted>>

\* variant: the guard on the cluster name never fires
ClusterNameNeverChecked == FALSE

ClusterNameIsNotSet == Falsy(clusterName)
TaskIdIsNotSet == Falsy(taskId)

\* variant: the descriptor names the task before the cluster
TargetStringTaskFirst(cluster, task, runtimeId) ==
  "ecs:" \o task \o "_" \o cluster \o "_" \o runtimeId

\* ecs:${clusterName}_${taskId}_${containerRuntimeId}
TargetString(cluster, task, runtimeId) ==
  "ecs:" \o cluster \o "_" \o task \o "_" \o runtimeId

\* get target()
ReadTarget ==
  /\ pc # "Failed"
  /\ IF ClusterNameIsNotSet
     THEN Throws("target", undefined, targetText.CLUSTER_NOT_RESOLVED, <<>>, <<>>, <<>>, <<>>)
     ELSE IF TaskIdIsNotSet
     THEN Throws("target", undefined, targetText.TASK_ID_NOT_RESOLVED, <<>>, <<>>, <<>>, <<>>)
     ELSE IF Falsy(containerRuntimeId)
     THEN Throws("target", undefined, targetText.CONTAINER_NOT_RESOLVED, <<>>, <<>>, <<>>, <<>>)
     ELSE /\ Settled("target", undefined, undefined,
                     TargetString(clusterName, taskId, containerRuntimeId),
                     <<>>, <<>>, <<>>, <<>>)
          /\ UNCHANGED <<os, rawArgs, dbHost, port, localPort, client, clusterName, taskId, containerRuntimeId, serviceName,
                         processedArgs, target, pc, evicted>>

\* variant: the first cluster is taken whenever there is one
AnyClusterIsOnlyOne(clusterNames) == Len(clusterNames) >= 1

\* the single-cluster branch of resolveCluster
OnlyOneCluster(clusterNames) == Len(clusterNames) = 1

\* the writes that end resolveCluster
CommitCluster(name, skippable) ==
  /\ clusterName' = name
  /\ processedArgs' = SetArg(processedArgs, "cluster", [skippable |-> skippable, value |-> name])
  /\ target' = [target EXCEPT !.clusterName = name]
  /\ pc' = "ClusterResolved"
  /\ UNCHANGED <<os, rawArgs, dbHost, port, localPort, client, taskId, containerRuntimeId, serviceName, evicted>>

resolveCluster ==
  /\ MayRun("ClusterResolved")
  /\ \E items \in SeqsUpTo({ClusterArn(n) : n \in ClusterNames}, MaxClusters) :
     \E script \in ListScripts(items) :
       LET op == "resolveCluster"
           input == Obj(<<>>)
           answer == ListAnswer(items, script)
           listed == Inventory(input, answer.stubbed, answer.api)
           allClusterArns == listed.value
           clusterNames == [i \in 1..Len(allClusterArns) |-> ClusterShortName(allClusterArns[i])]
       IN IF listed.error # undefined
          THEN Throws(op, undefined, listed.error, <<input>>, listed.sent, <<>>, <<>>)
          ELSE IF Len(allClusterArns) = 0
          THEN Throws(op, undefined, targetText.NO_CLUSTERS, <<input>>, listed.sent, <<>>, <<allClusterArns>>)
          ELSE IF OnlyOneCluster(clusterNames)
          THEN /\ CommitCluster(clusterNames[1], TRUE)
               /\ Settled(op, undefined, undefined, "this", <<input>>, listed.sent, <<>>,
                          <<allClusterArns>>)
          ELSE \E picked \in Interrupt..Len(clusterNames) :
                 IF picked = Interrupt
                 THEN Throws(op, undefined, EXIT_PROMPT, <<input>>, listed.sent,
                             <<SelectPrompt(targetText.SELECT_CLUSTER_PROMPT, clusterNames, picked)>>,
                             <<allClusterArns>>)
                 ELSE /\ CommitCluster(clusterNames[picked], FALSE)
                      /\ Settled(op, undefined, undefined, "this", <<input>>, listed.sent,
                                 <<SelectPrompt(targetText.SELECT_CLUSTER_PROMPT, clusterNames, picked)>>,
                                 <<allClusterArns>>)

\* variant: an exact match is always skippable
ExactMatchAlwaysSkippable(serviceNames) == TRUE

\* skippable: serviceNames.length === 1
ExactMatchSkippable(serviceNames) == Len(serviceNames) = 1

\* serviceNames.find((name) => name === serviceNameLike), as a list of at most
\* one name
ExactMatch(serviceNames, serviceNameLike) ==
  LET found == SelectSeq(serviceNames, LAMBDA name : name = serviceNameLike)
  IN IF found = <<>> THEN <<>> ELSE <<found[1]>>

\* variant: the missing hint is recorded as an argument the user must pass
SkipServiceNotSkippable ==
  /\ processedArgs' = SetArg(processedArgs, "service", [skippable |-> FALSE, value |-> undefined])
  /\ pc' = "ServiceResolved"
  /\ UNCHANGED <<os, rawArgs, dbHost, port, localPort, client, clusterName, taskId, containerRuntimeId, serviceName, target,
                 evicted>>

\* the writes that end resolveService when no service was asked for
SkipService ==
  /\ processedArgs' = SetArg(processedArgs, "service", [skippable |-> TRUE, value |-> undefined])
  /\ pc' = "ServiceResolved"
  /\ UNCHANGED <<os, rawArgs, dbHost, port, localPort, client, clusterName, taskId, containerRuntimeId, serviceName, target,
                 evicted>>

\* variant: the single fuzzy match is taken whatever the answer
ConfirmedWhateverSaid(confirmed) == TRUE

\* await confirm(...), once the prompt was answered
Confirmed(confirmed) == confirmed = "yes"

\* the writes that end resolveService when a service was accepted
CommitService(name, skippable) ==
  /\ serviceName' = name
  /\ processedArgs' = SetArg(processedArgs, "service", [skippable |-> skippable, value |-> name])
  /\ pc' = "ServiceResolved"
  /\ UNCHANGED <<os, rawArgs, dbHost, port, localPort, client, clusterName, taskId, containerRuntimeId, target, evicted>>

\* resolveService(serviceNameLike)
resolveServiceLike(serviceNameLike) ==
  /\ MayRun("ServiceResolved")
  /\ LET op == "resolveService"
     IN IF ClusterNameIsNotSet
        THEN Throws(op, serviceNameLike, targetText.CLUSTER_NOT_RESOLVED, <<>>, <<>>, <<>>, <<>>)
        ELSE IF Falsy(serviceNameLike)
        THEN /\ SkipService
             /\ Settled(op, serviceNameLike, undefined, "this", <<>>, <<>>, <<>>, <<>>)
        ELSE
          \E items \in SeqsUpTo({ServiceArn(clusterName, n) : n \in ServiceNames}, MaxServices) :
          \E script \in ListScripts(items) :
            LET input == Obj([cluster |-> clusterName])
                answer == ListAnswer(items, script)
                listed == Inventory(input, answer.stubbed, answer.api)
                serviceNames == [i \in 1..Len(listed.value) |-> PopSegment(listed.value[i])]
                exactMatch == ExactMatch(serviceNames, serviceNameLike)
                potentialServices == FuseSearch(serviceNames, serviceNameLike)
                confirmMessage ==
                  targetText.CONFIRM_FUZZY_SERVICE \o " (service: " \o potentialServices[1] \o ")"
            IN IF listed.error # undefined
               THEN Throws(op, serviceNameLike, listed.error, <<input>>, listed.sent, <<>>, <<>>)
               ELSE IF Len(serviceNames) = 0
               THEN Throws(op, serviceNameLike, targetText.NO_SERVICES, <<input>>, listed.sent, <<>>,
                           <<listed.value>>)
               ELSE IF exactMatch # <<>> /\ ~Falsy(exactMatch[1])
               THEN /\ CommitService(exactMatch[1], ExactMatchSkippable(serviceNames))
                    /\ Settled(op, serviceNameLike, undefined, "this", <<input>>,
                               listed.sent, <<>>, <<listed.value>>)
               ELSE IF Len(potentialServices) = 0
               THEN Throws(op, serviceNameLike, targetText.SERVICE_NOT_MATCHED, <<input>>, listed.sent,
                           <<>>, <<listed.value>>)
               ELSE IF Len(potentialServices) = 1
               THEN \E confirmed \in ConfirmAnswers :
                      IF confirmed = "interrupt"
                      THEN Throws(op, serviceNameLike, EXIT_PROMPT, <<input>>, listed.sent,
                                  <<ConfirmPrompt(confirmMessage, confirmed)>>,
                                  <<listed.value>>)
                      ELSE IF ~Confirmed(confirmed)
                      THEN Throws(op, serviceNameLike, targetText.FUZZY_SERVICE_NOT_CONFIRMED, <<input>>,
                                  listed.sent, <<ConfirmPrompt(confirmMessage, confirmed)>>,
                                  <<listed.value>>)
                      ELSE /\ CommitService(potentialServices[1], FALSE)
                           /\ Settled(op, serviceNameLike, undefined, "this", <<input>>,
                                      listed.sent,
                                      <<ConfirmPrompt(confirmMessage, confirmed)>>,
                                      <<listed.value>>)
               ELSE \E picked \in Interrupt..Len(potentialServices) :
                      IF picked = Interrupt
                      THEN Throws(op, serviceNameLike, EXIT_PROMPT, <<input>>, listed.sent,
                                  <<SelectPrompt(targetText.MULTIPLE_FUZZY_SERVICES_FOUND_PROMPT,
                                                 potentialServices, picked)>>,
                                  <<listed.value>>)
                      ELSE /\ CommitService(potentialServices[picked], FALSE)
                           /\ Settled(op, serviceNameLike, undefined, "this", <<input>>,
                                      listed.sent,
                                      <<SelectPrompt(targetText.MULTIPLE_FUZZY_SERVICES_FOUND_PROMPT,
                                                     potentialServices, picked)>>,
                                      <<listed.value>>)

\* resolveService called with any of the hints, or with none
resolveService == \E serviceNameLike \in ServiceHints : resolveServiceLike(serviceNameLike)

\* variant: the service filter does not select a task by itself
AutoSelectOnlySingleTask(allTaskArns) == Len(allTaskArns) = 1

\* allTaskArns.length === 1 || (this.serviceName && allTaskArns.length > 0)
AutoSelectTask(allTaskArns) ==
  Len(allTaskArns) = 1 \/ (~Falsy(serviceName) /\ Len(allTaskArns) > 0)

\* the container lists resolveTask is shown: it reads them only for the text
\* that describes a choice
TaskDisplayLists == {[list |-> <<ContainerNamed("app")>>]}

\* the value of a choice of the task prompt
TaskChoice(task) ==
  [taskId |-> PopSegment(task.taskArn), taskDefinition |-> task.taskDefinitionArn]

\* the writes that end resolveTask
CommitTask(id, taskDefinition) ==
  /\ taskId' = id
  /\ target' = [target EXCEPT !.taskId = id, !.taskDefinition = taskDefinition]
  /\ pc' = "TaskResolved"
  /\ UNCHANGED <<os, rawArgs, dbHost, port, localPort, client, clusterName, containerRuntimeId, serviceName, processedArgs,
                 evicted>>

resolveTask ==
  /\ MayRun("TaskResolved")
  /\ LET op == "resolveTask"
     IN IF ClusterNameIsNotSet
        THEN Throws(op, undefined, targetText.CLUSTER_NOT_RESOLVED, <<>>, <<>>, <<>>, <<>>)
        ELSE
          \E items \in SeqsUpTo({TaskArn(clusterName, id) : id \in TaskIds}, MaxTasks) :
          \E script \in ListScripts(items) :
            LET listInput == Obj([cluster |-> clusterName, serviceName |-> serviceName,
                                  desiredStatus |-> "RUNNING"])
                answer == ListAnswer(items, script)
                listed == Inventory(listInput, answer.stubbed, answer.api)
                allTaskArns == listed.value
            IN IF listed.error # undefined
               THEN Throws(op, undefined, listed.error, <<listInput>>, listed.sent, <<>>, <<>>)
               ELSE IF Len(allTaskArns) = 0
               THEN Throws(op, undefined, targetText.NO_TASKS, <<listInput>>, listed.sent, <<>>,
                           <<allTaskArns>>)
               ELSE
                 \E rejected \in BOOLEAN :
                 \E tasks \in IF rejected \/ ~Answered(Obj([taskArns |-> allTaskArns,
                                                            clusterName |-> clusterName]))
                              THEN {<<>>}
                              ELSE DescribeAnswers(allTaskArns, TaskDisplayLists) :
                   LET describeInput == Obj([taskArns |-> allTaskArns,
                                             clusterName |-> clusterName])
                       describeAnswer == DescribeAnswer(allTaskArns, tasks, rejected)
                       described == Inventory(describeInput, describeAnswer.stubbed,
                                              describeAnswer.api)
                       detailedTasks == described.value
                       calls == <<listInput, describeInput>>
                       sent == listed.sent \o described.sent
                       results == <<allTaskArns, detailedTasks>>
                       first == PopSegment(allTaskArns[1])
                       choices == [i \in 1..Len(detailedTasks) |-> TaskChoice(detailedTasks[i])]
                   IN IF described.error # undefined
                      THEN Throws(op, undefined, described.error, calls, sent, <<>>,
                                  <<allTaskArns>>)
                      ELSE IF AutoSelectTask(allTaskArns)
                      THEN IF Len(detailedTasks) = 0
                           THEN \* this.taskId and target.taskId are written, then
                                \* detailedTasks[0].taskDefinitionArn throws
                                /\ taskId' = first
                                /\ target' = [target EXCEPT !.taskId = first]
                                /\ pc' = "Failed"
                                /\ Settled(op, undefined, UNDEFINED_READ, undefined, calls,
                                           sent, <<>>, results)
                                /\ UNCHANGED <<os, rawArgs, dbHost, port, localPort, client, clusterName, containerRuntimeId,
                                               serviceName, processedArgs, evicted>>
                           ELSE /\ CommitTask(first, detailedTasks[1].taskDefinitionArn)
                                /\ Settled(op, undefined, undefined, "this", calls, sent,
                                           <<>>, results)
                      ELSE IF choices = <<>>
                      THEN Throws(op, undefined, NO_CHOICES, calls, sent,
                                  <<SelectPrompt(targetText.SELECT_TASK_PROMPT, choices, Interrupt)>>,
                                  results)
                      ELSE \E picked \in Interrupt..Len(choices) :
                             IF picked = Interrupt
                             THEN Throws(op, undefined, EXIT_PROMPT, calls, sent,
                                         <<SelectPrompt(targetText.SELECT_TASK_PROMPT, choices, picked)>>,
                                         results)
                             ELSE /\ CommitTask(choices[picked].taskId,
                                                choices[picked].taskDefinition)
                                  /\ Settled(op, undefined, undefined, "this", calls, sent,
                                             <<SelectPrompt(targetText.SELECT_TASK_PROMPT, choices,
                                                            picked)>>,
                                             results)

\* the value of a choice of the container prompt
ContainerChoice(c) == [runtimeId |-> c.runtimeId, name |-> c.name]

\* !task.containers || task.containers.length === 0
NoContainers(task) == ~HasKey(task, "containers") \/ Len(task.containers) = 0

\* variant: the container name is kept where the runtime identifier belongs
CommitContainerNameAsId(runtimeId, name, skippable) ==
  /\ containerRuntimeId' = name
  /\ target' = [target EXCEPT !.containerName = name]
  /\ processedArgs' = SetArg(processedArgs, "container", [skippable |-> skippable, value |-> name])
  /\ pc' = "ContainerResolved"
  /\ UNCHANGED <<os, rawArgs, dbHost, port, localPort, client, clusterName, taskId, serviceName, evicted>>

\* the writes that end resolveContainer
CommitContainer(runtimeId, name, skippable) ==
  /\ containerRuntimeId' = runtimeId
  /\ target' = [target EXCEPT !.containerName = name]
  /\ processedArgs' = SetArg(processedArgs, "container", [skippable |-> skippable, value |-> name])
  /\ pc' = "ContainerResolved"
  /\ UNCHANGED <<os, rawArgs, dbHost, port, localPort, client, clusterName, taskId, serviceName, evicted>>

resolveContainer ==
  /\ MayRun("ContainerResolved")
  /\ LET op == "resolveContainer"
     IN IF ClusterNameIsNotSet
        THEN Throws(op, undefined, targetText.CLUSTER_NOT_RESOLVED, <<>>, <<>>, <<>>, <<>>)
        ELSE IF TaskIdIsNotSet
        THEN Throws(op, undefined, targetText.TASK_ID_NOT_RESOLVED, <<>>, <<>>, <<>>, <<>>)
        ELSE
          \E rejected \in BOOLEAN :
          \E tasks \in IF rejected \/ evicted THEN {<<>>}
                       ELSE DescribeAnswers(<<TaskArn(clusterName, taskId)>>, ContainerLists)
                            \ {<<>>} :
            LET input == Obj([taskArns |-> <<taskId>>, clusterName |-> clusterName])
                answer == DescribeAnswer(<<TaskArn(clusterName, taskId)>>, tasks, rejected)
                described == Inventory(input, answer.stubbed, answer.api)
                taskDetails == described.value
                task == taskDetails[1]
                choices == [i \in 1..Len(task.containers) |-> ContainerChoice(task.containers[i])]
            IN IF described.error # undefined
               THEN Throws(op, undefined, described.error, <<input>>, described.sent, <<>>, <<>>)
               ELSE IF Len(taskDetails) = 0
               THEN Throws(op, undefined, targetText.TASK_NOT_FOUND, <<input>>, described.sent, <<>>,
                           <<taskDetails>>)
               ELSE IF NoContainers(task)
               THEN Throws(op, undefined, targetText.NO_CONTAINERS_IN_TASK, <<input>>, described.sent,
                           <<>>, <<taskDetails>>)
               ELSE IF Len(task.containers) = 1
               THEN /\ CommitContainer(task.containers[1].runtimeId, task.containers[1].name,
                                       TRUE)
                    /\ Settled(op, undefined, undefined, "this", <<input>>, described.sent,
                               <<>>, <<taskDetails>>)
               ELSE \E picked \in Interrupt..Len(choices) :
                      IF picked = Interrupt
                      THEN Throws(op, undefined, EXIT_PROMPT, <<input>>, described.sent,
                                  <<SelectPrompt(targetText.SELECT_CONTAINER_PROMPT, choices, picked)>>,
                                  <<taskDetails>>)
                      ELSE /\ CommitContainer(choices[picked].runtimeId, choices[picked].name,
                                              FALSE)
                           /\ Settled(op, undefined, undefined, "this", <<input>>,
                                      described.sent,
                                      <<SelectPrompt(targetText.SELECT_CONTAINER_PROMPT, choices, picked)>>,
                                      <<taskDetails>>)

\* the inventory drifts: the task selected in stage 3 stops running before
\* stage 4 describes it
Evict ==
  /\ pc # "Failed"
  /\ MayRun("ContainerResolved")
  /\ ~Falsy(taskId)
  /\ ~evicted
  /\ evicted' = TRUE
  /\ UNCHANGED <<os, rawArgs, dbHost, port, localPort, client, clusterName, taskId, containerRuntimeId, serviceName,
                 processedArgs, target, pc, last>>

\* the unit tests put a freshly constructed resolver into the state a test
\* starts from by assigning its fields
Arrange ==
  /\ last.op = "constructor"
  /\ \E cluster \in {"prod"}, task \in {undefined, "abc123"},
        service \in {undefined, "web"}, runtimeId \in {undefined, "rt-0a1b"} :
       /\ runtimeId # undefined => task # undefined
       /\ service # undefined => task = undefined
       /\ clusterName' = cluster
       /\ taskId' = task
       /\ serviceName' = service
       /\ containerRuntimeId' = runtimeId
  /\ Settled("arrange", undefined, undefined, undefined, <<>>, <<>>, <<>>, <<>>)
  /\ UNCHANGED <<os, rawArgs, dbHost, port, localPort, client, processedArgs, target, pc, evicted>>

Next ==
  \/ resolveCluster
  \/ resolveService
  \/ resolveTask
  \/ resolveContainer
  \/ ReadTarget
  \/ Evict

Spec == Init /\ [][Next]_vars

NextHarness ==
  \/ Next
  \/ Arrange

SpecHarness == Init /\ [][NextHarness]_vars

(***************************************************************************)
(* The inventory client called on its own, as its unit tests call it: one  *)
(* call on a fresh client, its query and the responses of client.send      *)
(* drawn from the sets below.                                              *)
(***************************************************************************)
ListQueries ==
  { [cluster |-> "prod", serviceName |-> "web", desiredStatus |-> "RUNNING"],
    [cluster |-> "prod", desiredStatus |-> "RUNNING"],
    [cluster |-> "prod"],
    <<>>,
    [taskArns |-> <<"abc123">>, clusterName |-> "prod"],
    [taskArns |-> <<"abc123">>, cluster |-> "prod"],
    [taskArns |-> <<"abc123">>, desiredStatus |-> "RUNNING"],
    [unknownKey |-> "value"] }

PageTokens == {undefined, "", Token(1), Token(2)}
PageItems == {<<>>, <<"arn-1">>, <<"arn-2", "arn-3">>}

\* the responses client.send may give to a list command
ListResponses ==
  {[items |-> items, nextToken |-> token] : items \in PageItems, token \in PageTokens}
  \cup {[nextToken |-> token] : token \in PageTokens}
  \cup {Reject}

\* the responses client.send may give to a describe command for a batch
BatchResponses(batch, cluster) ==
  LET described == [i \in 1..Len(batch) |-> DescribedTask(TaskArn(cluster, batch[i]),
                                                          [list |-> <<>>])]
      missing == <<[arn |-> batch[1], reason |-> "MISSING"]>>
  IN {[tasks |-> tasks, failures |-> failures] :
        tasks \in {described, <<>>, SubSeq(described, 1, 1)}, failures \in {<<>>, missing}}
     \cup {[tasks |-> described], [failures |-> missing], Reject}

RECURSIVE BatchScripts(_, _)
\* a response for each of the batches
BatchScripts(batches, cluster) ==
  IF batches = <<>> THEN {<<>>}
  ELSE {<<response>> \o rest : response \in BatchResponses(Head(batches), cluster),
                               rest \in BatchScripts(Tail(batches), cluster)}

CallPaginateClientCommand ==
  /\ last.op = "constructor"
  /\ \E commandInput \in ListQueries, pages \in SeqsUpTo(ListResponses, MaxPages) :
       LET called == paginateClientCommand(commandInput, pages)
       IN Settled("paginateClientCommand", [commandInput |-> commandInput, pages |-> pages],
                  called.error, called.value, <<>>, called.sent, <<>>, <<>>)
  /\ UNCHANGED <<os, rawArgs, dbHost, port, localPort, client, clusterName, taskId, containerRuntimeId, serviceName,
                 processedArgs, target, pc, evicted>>

CallPaginateDescribeTasksRequest ==
  /\ last.op = "constructor"
  /\ \E taskArns \in SeqsUpTo(TaskIds, MaxArns), cluster \in ClusterNames,
        batchSize \in 1..MaxBatchSize, inPlace \in BOOLEAN :
     \E responses \in BatchScripts(getBatch(taskArns, batchSize), cluster) :
       LET rawInput == Obj([taskArns |-> taskArns, clusterName |-> cluster])
           called == paginateDescribeTasksRequest(rawInput, responses, batchSize)
       IN \* results: the caller's array after the call, a batch being taken
          \* for each request sent
          Settled("paginateDescribeTasksRequest",
                  [rawInput |-> rawInput, batchSize |-> batchSize, responses |-> responses],
                  called.error, called.value, <<>>, called.sent, <<>>,
                  <<arnsAfterBatches(taskArns, batchSize, Len(called.sent), inPlace)>>)
  /\ UNCHANGED <<os, rawArgs, dbHost, port, localPort, client, clusterName, taskId, containerRuntimeId, serviceName,
                 processedArgs, target, pc, evicted>>

NextClient ==
  \/ CallPaginateClientCommand
  \/ CallPaginateDescribeTasksRequest

SpecClient == Init /\ [][NextClient]_vars

(***************************************************************************)
(* The end-to-end scenario: main's chain over an inventory with the single *)
(* cluster prod, no service hint, two running tasks that stay running, and *)
(* a single container in the task picked.                                  *)
(***************************************************************************)
ArnsOf(tasks) == {tasks[i].taskArn : i \in 1..Len(tasks)}

ScenarioCluster ==
  /\ resolveCluster
  /\ last'.results # <<>> => last'.results[1] = <<ClusterArn("prod")>>

ScenarioService ==
  /\ resolveService
  /\ Falsy(last'.arg)

ScenarioTask ==
  /\ resolveTask
  /\ last'.results # <<>> =>
       /\ Len(last'.results[1]) = 2
       /\ last'.results[1][1] # last'.results[1][2]
  /\ Len(last'.results) = 2 =>
       /\ Len(last'.results[2]) = 2
       /\ ArnsOf(last'.results[2]) = {last'.results[1][1], last'.results[1][2]}

ScenarioContainer ==
  /\ resolveContainer
  /\ last'.results # <<>> =>
       /\ Len(last'.results[1]) = 1
       /\ "containers" \in DOMAIN last'.results[1][1]
       /\ Len(last'.results[1][1].containers) = 1

NextEndToEnd ==
  \/ ScenarioCluster
  \/ ScenarioService
  \/ ScenarioTask
  \/ ScenarioContainer
  \/ ReadTarget

SpecEndToEnd == Init /\ [][NextEndToEnd]_vars

(***************************************************************************)
(* ForwardingParamsResolver (resolver/forwardingParams.ts): the messages,  *)
(* the container environment, and the three stages that resolve the host,  *)
(* the remote port and the local port.                                     *)
(***************************************************************************)
forwardingText ==
  [CLUSTER_NAME_MISSING |->
     "Cluster name was not resolved prior to resolving the DB host through container ENV",
   CONTAINER_NAME_MISSING |->
     "Container name was not resolved prior to resolving the DB host through container ENV",
   TASK_MISSING |->
     "Task definition or ID were not resolved prior to resolving the DB host through container ENV",
   REMOTE_PORT_NOT_SET |-> "Remote port is not defined. Did you run resolveRemotePort() first?",
   SEARCH_ENV_PROMPT |->
     "No DB host for forwarding was supplied. Should we try to look it up in the container ENV?",
   SELECT_ENV_PROMPT |-> "Select ENV variable to use as DB host",
   TYPE_HOST_PROMPT |-> "Type in or paste the DB host address",
   SELECT_PORT_PROMPT |-> "Select a target port of your DB host",
   TYPE_PORT_PROMPT |-> "Type in or paste the DB port",
   TYPE_LOCAL_PORT_PROMPT |-> "Type in or paste the local port",
   DB_HOST_NOT_SET |-> "DB host is not set. Did you run resolveDbHost() first?",
   DB_PORT_NOT_SET |-> "DB port is not set. Did you run resolveRemotePort() first?",
   LOCAL_PORT_NOT_SET |-> "Local port is not set. Did you run resolveLocalPort() first?"]

ENV_VAR_MISSING(varToLookup) ==
  "Container ENV (and ENV overrides) doesn't have an ENV variable with the name '"
    \o varToLookup \o "'"
SAME_PORT_PROMPT(remote) == "Use the same local port (" \o remote \o ") as the DB port?"

\* a call of input and a call of number, with the answer given
InputPrompt(message, answer) == [kind |-> "input", message |-> message, answer |-> answer]
NumberPrompt(message, answer) == [kind |-> "number", message |-> message, answer |-> answer]

\* what the user may do at the input prompt (required: true) and at the
\* number prompt, which returns undefined when nothing was entered
InputAnswers == {[kind |-> "text", value |-> "db.typed.example"], [kind |-> "interrupt"]}
NumberAnswers ==
  {[kind |-> "number", value |-> n] : n \in {1234, 5432}}
    \cup {[kind |-> "empty"], [kind |-> "interrupt"]}

\* the template literal around the answer of the number prompt; of undefined
\* it makes the text undefined, written here apart from the value undefined
TemplateString(answer) ==
  IF answer.kind = "number" THEN ToString(answer.value) ELSE "'undefined'"

\* acc[name] = value on an object kept as its entries in insertion order
SetKey(object, name, value) ==
  IF \E i \in 1..Len(object) : object[i].name = name
  THEN [i \in 1..Len(object) |->
          IF object[i].name = name THEN [name |-> name, value |-> value] ELSE object[i]]
  ELSE Append(object, [name |-> name, value |-> value])

\* environment.reduce((acc, { name, value }) => { acc[name] = value; return acc }, acc)
RECURSIVE Reduce(_, _)
Reduce(environment, acc) ==
  IF environment = <<>> THEN acc
  ELSE Reduce(Tail(environment), SetKey(acc, Head(environment).name, Head(environment).value))

\* variant: the static variables are laid over the overrides
SpreadStaticLast(containerEnv, envOverrides) == Reduce(containerEnv, envOverrides)

\* { ...containerEnv, ...envOverrides }
Spread(containerEnv, envOverrides) == Reduce(envOverrides, containerEnv)

\* Object.keys(object) and object[name]
Keys(object) == [i \in 1..Len(object) |-> object[i].name]
Lookup(object, name) ==
  IF \E i \in 1..Len(object) : object[i].name = name
  THEN object[CHOOSE i \in 1..Len(object) : object[i].name = name].value
  ELSE undefined

\* the environments the inventory may hold for a container
EnvNames == {"DB_HOST", "ANOTHER_ENV"}
StaticEnvs == SeqsUpTo([name : EnvNames, value : {"a", ""}], MaxEnv)
OverrideEnvs == SeqsUpTo([name : EnvNames, value : {"b"}], MaxEnv)

\* the answers to DescribeTaskDefinitionCommand
DefinitionResponses(containerName) ==
  {[taskDefinition |->
      [containerDefinitions |-> <<[name |-> containerName, environment |-> env]>>]] :
     env \in StaticEnvs}
    \cup {[taskDefinition |->
            [containerDefinitions |->
               <<[name |-> "sidecar",
                  environment |-> <<[name |-> "DB_HOST", value |-> "s"]>>],
                 [name |-> containerName, environment |-> env]>>]] : env \in StaticEnvs}
    \cup {[taskDefinition |-> [containerDefinitions |-> <<[name |-> containerName]>>]],
          [taskDefinition |-> [containerDefinitions |-> <<>>]],
          <<>>,
          Reject}

\* the answers of paginate to the describe call for the task
TaskAnswers(containerName) ==
  {[value |-> <<[overrides |->
                   [containerOverrides |->
                      <<[name |-> containerName, environment |-> env]>>]]>>] :
     env \in OverrideEnvs}
    \cup {[value |-> <<[overrides |->
                          [containerOverrides |->
                             <<[name |-> "sidecar",
                                environment |-> <<[name |-> "DB_HOST", value |-> "o"]>>]>>]]>>],
          [value |-> <<[overrides |-> [containerOverrides |-> <<[name |-> containerName]>>]]>>],
          [value |-> <<[overrides |-> <<>>]>>],
          [value |-> << <<>> >>],
          [value |-> <<>>],
          Reject}

\* response.taskDefinition?.containerDefinitions?.find(...)?.environment?.reduce(...);
\* a chain that ends in undefined spreads to nothing, as the empty object does
EnvOfDefinition(response, containerName) ==
  IF ~HasKey(response, "taskDefinition") THEN <<>>
  ELSE IF ~HasKey(response.taskDefinition, "containerDefinitions") THEN <<>>
  ELSE LET found == SelectSeq(response.taskDefinition.containerDefinitions,
                              LAMBDA container : container.name = containerName)
       IN IF found = <<>> THEN <<>>
          ELSE IF ~HasKey(found[1], "environment") THEN <<>>
          ELSE Reduce(found[1].environment, <<>>)

\* task.overrides?.containerOverrides?.find(...)?.environment?.reduce(...)
EnvOfOverrides(task, containerName) ==
  IF ~HasKey(task, "overrides") THEN <<>>
  ELSE IF ~HasKey(task.overrides, "containerOverrides") THEN <<>>
  ELSE LET found == SelectSeq(task.overrides.containerOverrides,
                              LAMBDA override : override.name = containerName)
       IN IF found = <<>> THEN <<>>
          ELSE IF ~HasKey(found[1], "environment") THEN <<>>
          ELSE Reduce(found[1].environment, <<>>)

EnvFailed(error, calls, sent) ==
  [error |-> error, value |-> <<>>, calls |-> calls, sent |-> sent, results |-> <<>>]

\* variant: the container name is not looked at before the requests
ContainerNameNeverChecked == FALSE

ContainerNameIsMissing == Falsy(target.containerName)

\* getContainerEnv(), answered by definition and by stubbed
getContainerEnv(definition, stubbed) ==
  IF Falsy(target.clusterName) THEN EnvFailed(forwardingText.CLUSTER_NAME_MISSING, <<>>, <<>>)
  ELSE IF ContainerNameIsMissing THEN EnvFailed(forwardingText.CONTAINER_NAME_MISSING, <<>>, <<>>)
  ELSE IF Falsy(target.taskDefinition) \/ Falsy(target.taskId)
  THEN EnvFailed(forwardingText.TASK_MISSING, <<>>, <<>>)
  ELSE
    LET command == [command |-> "DescribeTaskDefinitionCommand",
                    input |-> [taskDefinition |-> target.taskDefinition]]
        input == Obj([taskArns |-> <<target.taskId>>, clusterName |-> target.clusterName])
        described == Inventory(input, stubbed, [pages |-> <<>>, responses |-> <<>>])
    IN IF HasKey(definition, "reject") THEN EnvFailed(API_ERROR, <<>>, <<command>>)
       ELSE IF described.error # undefined
       THEN EnvFailed(described.error, <<input>>, <<command>> \o described.sent)
       ELSE IF described.value = <<>>
       THEN EnvFailed(UNDEFINED_READ, <<input>>, <<command>> \o described.sent)
       ELSE [error |-> undefined,
             value |-> Spread(EnvOfDefinition(definition, target.containerName),
                              EnvOfOverrides(described.value[1], target.containerName)),
             calls |-> <<input>>,
             sent |-> <<command>> \o described.sent,
             results |-> <<definition, described.value>>]

\* every way getContainerEnv() may end in the current state
EnvOutcomes ==
  {getContainerEnv(definition, stubbed) :
     definition \in DefinitionResponses(target.containerName),
     stubbed \in TaskAnswers(target.containerName)}

\* the score Fuse gives a variable name for the pattern HOST (lower is closer)
HostScore(name) == IF name = "DB_HOST" THEN 0 ELSE 1

\* new Fuse(keys, {threshold: 1, shouldSort: true}).search('HOST').map(({ item }) => item)
SortedEnv(keys) ==
  SelectSeq(keys, LAMBDA name : HostScore(name) = 0)
    \o SelectSeq(keys, LAMBDA name : HostScore(name) # 0)

EnvChoices(containerEnv) ==
  LET sortedEnv == SortedEnv(Keys(containerEnv))
  IN [i \in 1..Len(sortedEnv) |->
        [value |-> Lookup(containerEnv, sortedEnv[i]),
         description |-> sortedEnv[i] \o ": " \o Lookup(containerEnv, sortedEnv[i]),
         name |-> sortedEnv[i]]]

\* variant: the host is recorded as an argument that may be skipped
CommitDbHostSkippable(host) ==
  /\ dbHost' = host
  /\ processedArgs' = SetArg(processedArgs, "db-host", [skippable |-> TRUE, value |-> host])
  /\ pc' = "DbHostResolved"
  /\ UNCHANGED <<os, client, clusterName, taskId, containerRuntimeId, serviceName, target,
                 evicted, rawArgs, port, localPort>>

\* the writes that end resolveDbHost
CommitDbHost(host) ==
  /\ dbHost' = host
  /\ processedArgs' = SetArg(processedArgs, "db-host", [skippable |-> FALSE, value |-> host])
  /\ pc' = "DbHostResolved"
  /\ UNCHANGED <<os, client, clusterName, taskId, containerRuntimeId, serviceName, target,
                 evicted, rawArgs, port, localPort>>

\* the free-text prompt that ends resolveDbHost
TypeHost(op, env, asked) ==
  \E answer \in InputAnswers :
    LET prompts == asked \o <<InputPrompt(forwardingText.TYPE_HOST_PROMPT, answer)>>
    IN IF answer.kind = "interrupt"
       THEN Throws(op, undefined, EXIT_PROMPT, env.calls, env.sent, prompts, env.results)
       ELSE /\ CommitDbHost(answer.value)
            /\ Settled(op, undefined, undefined, "this", env.calls, env.sent, prompts,
                       env.results)

\* !containerEnv[varToLookup], negated
HintFound(containerEnv, varToLookup) == ~Falsy(Lookup(containerEnv, varToLookup))

resolveDbHost ==
  /\ pc # "Failed"
  /\ MayRun("DbHostResolved")
  /\ LET op == "resolveDbHost"
         varToLookup == rawArgs["db-host-from-container-env"]
         NoEnv == [calls |-> <<>>, sent |-> <<>>, results |-> <<>>]
     IN IF ~Falsy(rawArgs["db-host"])
        THEN /\ CommitDbHost(rawArgs["db-host"])
             /\ Settled(op, undefined, undefined, "this", <<>>, <<>>, <<>>, <<>>)
        ELSE IF ~Falsy(varToLookup)
        THEN \E env \in EnvOutcomes :
               IF env.error # undefined
               THEN Throws(op, undefined, env.error, env.calls, env.sent, <<>>, env.results)
               ELSE IF ~HintFound(env.value, varToLookup)
               THEN Throws(op, undefined, ENV_VAR_MISSING(varToLookup), env.calls, env.sent,
                           <<>>, env.results)
               ELSE /\ CommitDbHost(Lookup(env.value, varToLookup))
                    /\ Settled(op, undefined, undefined, "this", env.calls, env.sent, <<>>,
                               env.results)
        ELSE \E proceedWithEnv \in ConfirmAnswers :
               LET asked == <<ConfirmPrompt(forwardingText.SEARCH_ENV_PROMPT, proceedWithEnv)>>
               IN IF proceedWithEnv = "interrupt"
                  THEN Throws(op, undefined, EXIT_PROMPT, <<>>, <<>>, asked, <<>>)
                  ELSE IF Confirmed(proceedWithEnv)
                  THEN \E env \in EnvOutcomes :
                         IF env.error # undefined
                         THEN Throws(op, undefined, env.error, env.calls, env.sent, asked,
                                     env.results)
                         ELSE IF Len(Keys(env.value)) = 0
                         THEN TypeHost(op, env, asked)
                         ELSE \E picked \in Interrupt..Len(EnvChoices(env.value)) :
                                LET prompts ==
                                      asked \o <<SelectPrompt(forwardingText.SELECT_ENV_PROMPT,
                                                              EnvChoices(env.value), picked)>>
                                IN IF picked = Interrupt
                                   THEN Throws(op, undefined, EXIT_PROMPT, env.calls,
                                               env.sent, prompts, env.results)
                                   ELSE /\ CommitDbHost(EnvChoices(env.value)[picked].value)
                                        /\ Settled(op, undefined, undefined, "this",
                                                   env.calls, env.sent, prompts, env.results)
                  ELSE TypeHost(op, NoEnv, asked)

\* the menu of resolveRemotePort; the separator cannot be picked
PortChoices ==
  << [value |-> "3306", name |-> "MySQL (3306)"],
     [value |-> "5432", name |-> "PostgreSQL (5432)"],
     [value |-> "27017", name |-> "MongoDB (27017)"],
     [value |-> "5439", name |-> "Redshift (5439)"],
     [separator |-> TRUE],
     [value |-> "custom", name |-> "Other (type in)"] >>

Selectable(choices) == {i \in 1..Len(choices) : ~HasKey(choices[i], "separator")}

\* the writes that end resolveRemotePort
CommitPort(value) ==
  /\ port' = value
  /\ processedArgs' = SetArg(processedArgs, "port", [skippable |-> FALSE, value |-> value])
  /\ pc' = "RemotePortResolved"
  /\ UNCHANGED <<os, client, clusterName, taskId, containerRuntimeId, serviceName, target,
                 evicted, rawArgs, dbHost, localPort>>

\* variant: the marker of the last menu entry is taken for a port
IsCustomNever(answer) == FALSE

\* answer === 'custom'
IsCustom(answer) == answer = "custom"

resolveRemotePort ==
  /\ pc # "Failed"
  /\ MayRun("RemotePortResolved")
  /\ LET op == "resolveRemotePort"
     IN IF ~Falsy(rawArgs["port"])
        THEN /\ CommitPort(rawArgs["port"])
             /\ Settled(op, undefined, undefined, "this", <<>>, <<>>, <<>>, <<>>)
        ELSE \E picked \in {Interrupt} \cup Selectable(PortChoices) :
               LET asked == <<SelectPrompt(forwardingText.SELECT_PORT_PROMPT, PortChoices, picked)>>
               IN IF picked = Interrupt
                  THEN Throws(op, undefined, EXIT_PROMPT, <<>>, <<>>, asked, <<>>)
                  ELSE IF ~IsCustom(PortChoices[picked].value)
                  THEN /\ CommitPort(PortChoices[picked].value)
                       /\ Settled(op, undefined, undefined, "this", <<>>, <<>>, asked, <<>>)
                  ELSE \E answer \in NumberAnswers :
                         LET prompts == asked \o <<NumberPrompt(forwardingText.TYPE_PORT_PROMPT, answer)>>
                         IN IF answer.kind = "interrupt"
                            THEN Throws(op, undefined, EXIT_PROMPT, <<>>, <<>>, prompts, <<>>)
                            ELSE /\ CommitPort(TemplateString(answer))
                                 /\ Settled(op, undefined, undefined, "this", <<>>, <<>>,
                                            prompts, <<>>)

\* the writes that end resolveLocalPort
CommitLocalPort(value) ==
  /\ localPort' = value
  /\ processedArgs' = SetArg(processedArgs, "local-port",
                             [skippable |-> FALSE, value |-> value])
  /\ pc' = "LocalPortResolved"
  /\ UNCHANGED <<os, client, clusterName, taskId, containerRuntimeId, serviceName, target,
                 evicted, rawArgs, dbHost, port>>

\* variant: the remote port is never looked at
RemotePortNeverChecked == FALSE

\* !this.port
RemotePortIsNotSet == Falsy(port)

resolveLocalPort ==
  /\ pc # "Failed"
  /\ MayRun("LocalPortResolved")
  /\ LET op == "resolveLocalPort"
     IN IF ~Falsy(rawArgs["local-port"])
        THEN /\ CommitLocalPort(rawArgs["local-port"])
             /\ Settled(op, undefined, undefined, "this", <<>>, <<>>, <<>>, <<>>)
        ELSE IF RemotePortIsNotSet
        THEN Throws(op, undefined, forwardingText.REMOTE_PORT_NOT_SET, <<>>, <<>>, <<>>, <<>>)
        ELSE \E confirmed \in ConfirmAnswers :
               LET asked == <<ConfirmPrompt(SAME_PORT_PROMPT(port), confirmed)>>
               IN IF confirmed = "interrupt"
                  THEN Throws(op, undefined, EXIT_PROMPT, <<>>, <<>>, asked, <<>>)
                  ELSE IF Confirmed(confirmed)
                  THEN /\ CommitLocalPort(port)
                       /\ Settled(op, undefined, undefined, "this", <<>>, <<>>, asked, <<>>)
                  ELSE \E answer \in NumberAnswers :
                         LET prompts ==
                               asked \o <<NumberPrompt(forwardingText.TYPE_LOCAL_PORT_PROMPT, answer)>>
                         IN IF answer.kind = "interrupt"
                            THEN Throws(op, undefined, EXIT_PROMPT, <<>>, <<>>, prompts, <<>>)
                            ELSE /\ CommitLocalPort(TemplateString(answer))
                                 /\ Settled(op, undefined, undefined, "this", <<>>, <<>>,
                                            prompts, <<>>)

\* JSON.stringify of the elements of a list of strings
RECURSIVE JsonArrayItems(_)
JsonArrayItems(items) ==
  IF items = <<>> THEN ""
  ELSE IF Len(items) = 1 THEN "\"" \o items[1] \o "\""
  ELSE "\"" \o Head(items) \o "\"," \o JsonArrayItems(Tail(items))

\* JSON.stringify({ host: [...], portNumber: [...], localPortNumber: [...] })
Payload(host, portNumber, localPortNumber) ==
  "{\"host\":[" \o JsonArrayItems(host) \o "],\"portNumber\":["
    \o JsonArrayItems(portNumber) \o "],\"localPortNumber\":["
    \o JsonArrayItems(localPortNumber) \o "]}"

\* get forwardingParams()
ReadForwardingParams ==
  /\ pc # "Failed"
  /\ LET op == "forwardingParams"
     IN IF Falsy(dbHost)
        THEN Throws(op, undefined, forwardingText.DB_HOST_NOT_SET, <<>>, <<>>, <<>>, <<>>)
        ELSE IF Falsy(port)
        THEN Throws(op, undefined, forwardingText.DB_PORT_NOT_SET, <<>>, <<>>, <<>>, <<>>)
        ELSE IF Falsy(localPort)
        THEN Throws(op, undefined, forwardingText.LOCAL_PORT_NOT_SET, <<>>, <<>>, <<>>, <<>>)
        ELSE /\ Settled(op, undefined, undefined, Payload(<<dbHost>>, <<port>>, <<localPort>>),
                        <<>>, <<>>, <<>>, <<>>)
             /\ UNCHANGED <<os, rawArgs, dbHost, port, localPort, client, clusterName, taskId,
                            containerRuntimeId, serviceName, processedArgs, target, pc,
                            evicted>>

\* the states the unit tests start the stages from: a freshly constructed
\* resolver over a mediator whose target and rawArgs the test has assigned
ForwardingTargets ==
  [taskId : {undefined, "abc123"},
   taskDefinition : {undefined, TaskDefOf("abc123")},
   containerName : {undefined, "app"},
   clusterName : {undefined, "prod"}]

ForwardingArgs ==
  {Args(host, hostFromEnv, remote, local) :
     host \in {undefined, "db.internal"}, hostFromEnv \in {undefined, "DB_HOST"},
     remote \in {undefined, "6379"}, local \in {undefined, "15432"}}

InitForwarding ==
  /\ os = NoSession
  /\ client \in {"stub", "real"}
  /\ clusterName = undefined
  /\ taskId = undefined
  /\ containerRuntimeId = undefined
  /\ serviceName = undefined
  /\ processedArgs = <<>>
  /\ target \in ForwardingTargets
  /\ pc = "Unstarted"
  /\ evicted = FALSE
  /\ rawArgs \in ForwardingArgs
  /\ dbHost = undefined
  /\ port = undefined
  /\ localPort = undefined
  /\ last = [op |-> "constructor", arg |-> undefined, error |-> undefined,
             ret |-> undefined, calls |-> <<>>, sent |-> <<>>, prompts |-> <<>>,
             results |-> <<>>]

NextForwarding ==
  \/ resolveDbHost
  \/ resolveRemotePort
  \/ resolveLocalPort
  \/ ReadForwardingParams

SpecForwarding == InitForwarding /\ [][NextForwarding]_vars

(***************************************************************************)
(* The CLI manager: the constructor over a parsed command line, the        *)
(* equivalent getter and formatCliArgs.                                    *)
(***************************************************************************)
NO_RESOLVER_DATA == "There is no collected argument data from resolvers"

\* the options of a command line that no forwarding stage reads
CliArgs(cluster, service, container, profile, region) ==
  ("cluster" :> cluster) @@ ("service" :> service) @@ ("container" :> container)
    @@ ("profile" :> profile) @@ ("region" :> region)

\* new CliManager(argv, mediator) over a mediator with empty processedArgs:
\* rawArgs holds the parsed options, and processedArgs the profile and the
\* region of the command line, each if it was given
NewCliManager(parsedArgv) ==
  [rawArgs |-> parsedArgv,
   processedArgs |->
     LET withProfile ==
           IF Falsy(parsedArgv["profile"]) THEN <<>>
           ELSE SetArg(<<>>, "profile", [skippable |-> FALSE, value |-> parsedArgv["profile"]])
     IN IF Falsy(parsedArgv["region"]) THEN withProfile
        ELSE SetArg(withProfile, "region",
                    [skippable |-> FALSE, value |-> parsedArgv["region"]])]

\* get equivalent()
ReadEquivalent ==
  /\ pc # "Failed"
  /\ IF Len(processedArgs) = 0
     THEN Throws("equivalent", undefined, NO_RESOLVER_DATA, <<>>, <<>>, <<>>, <<>>)
     ELSE /\ Settled("equivalent", undefined, undefined, processedArgs, <<>>, <<>>, <<>>, <<>>)
          /\ UNCHANGED <<os, rawArgs, dbHost, port, localPort, client, clusterName, taskId,
                         containerRuntimeId, serviceName, processedArgs, target, pc, evicted>>

RECURSIVE FormatEntries(_, _)
\* the reduce and the join of formatCliArgs: the tokens of the entries it
\* does not skip, with " \\\n" between them
FormatEntries(entries, format) ==
  IF entries = <<>> THEN ""
  ELSE LET arg == Head(entries)
           rest == FormatEntries(Tail(entries), format)
           token == "\t--" \o arg.key \o " " \o arg.value
       IN IF Falsy(arg.value) \/ (format = "only-required" /\ arg.skippable) THEN rest
          ELSE IF rest = "" THEN token
          ELSE token \o " \\\n" \o rest

\* formatCliArgs(format)
formatCliArgs ==
  /\ pc # "Failed"
  /\ \E format \in {"full", "only-required"} :
       IF Len(processedArgs) = 0
       THEN Throws("formatCliArgs", format, NO_RESOLVER_DATA, <<>>, <<>>, <<>>, <<>>)
       ELSE /\ Settled("formatCliArgs", format, undefined,
                       FormatEntries(processedArgs, format),
                       <<>>, <<>>, <<>>, <<>>)
            /\ UNCHANGED <<os, rawArgs, dbHost, port, localPort, client, clusterName, taskId,
                           containerRuntimeId, serviceName, processedArgs, target, pc, evicted>>

\* the command lines the manager is constructed over: yargs rejects one that
\* gives both db-host and db-host-from-container-env
CliCommandLines ==
  {Args(hosts[1], hosts[2], remote, undefined)
     @@ CliArgs(undefined, service, undefined, profile, region) :
       hosts \in {<<undefined, undefined>>, <<"db.internal", undefined>>,
                  <<undefined, "DB_HOST">>},
       remote \in {undefined, "6379"}, service \in {undefined, "web"},
       profile \in {undefined, "dev"}, region \in {undefined, "eu-west-1"}}

\* the manager and a forwarding resolver constructed over the mediator of a
\* resolved target; the stages and the manager's methods are then called
InitCli ==
  /\ os = NoSession
  /\ client = "stub"
  /\ clusterName = undefined
  /\ taskId = undefined
  /\ containerRuntimeId = undefined
  /\ serviceName = undefined
  /\ target = [taskId |-> "abc123", taskDefinition |-> TaskDefOf("abc123"),
               containerName |-> "app", clusterName |-> "prod"]
  /\ pc = "Unstarted"
  /\ evicted = FALSE
  /\ \E argv \in CliCommandLines :
       /\ rawArgs = NewCliManager(argv).rawArgs
       /\ processedArgs = NewCliManager(argv).processedArgs
  /\ dbHost = undefined
  /\ port = undefined
  /\ localPort = undefined
  /\ last = [op |-> "constructor", arg |-> undefined, error |-> undefined,
             ret |-> undefined, calls |-> <<>>, sent |-> <<>>, prompts |-> <<>>,
             results |-> <<>>]

NextCli ==
  \/ resolveDbHost
  \/ resolveRemotePort
  \/ resolveLocalPort
  \/ ReadEquivalent
  \/ formatCliArgs

SpecCli == InitCli /\ [][NextCli]_vars

(***************************************************************************)
(* The OS manager: runSession spawns the AWS CLI, forwards the signals the *)
(* parent receives to the child and resolves when the child exits.         *)
(***************************************************************************)
MaxSignals == 2

\* the arguments runSession spawns aws with: the profile and the region of
\* the command line follow, each if it was given
SessionArgs(targetString, params) ==
  <<"ssm", "start-session", "--target", targetString, "--parameters",
    "'" \o params \o "'", "--document-name",
    "AWS-StartPortForwardingSessionToRemoteHost">>
    \o (IF Falsy(rawArgs["profile"]) THEN <<>> ELSE <<"--profile", rawArgs["profile"]>>)
    \o (IF Falsy(rawArgs["region"]) THEN <<>> ELSE <<"--region", rawArgs["region"]>>)

\* runSession(target, params) up to the promise it returns: the child is
\* spawned, with or without a process ID, and the two handlers are registered
runSession(targetString, params) ==
  /\ pc # "Failed"
  /\ os.child = "none"
  /\ \E pid \in {undefined, "1234"} :
       os' = [os EXCEPT !.child = "running", !.pid = pid,
                        !.command = <<"aws">> \o SessionArgs(targetString, params)]
  /\ Settled("runSession", [target |-> targetString, params |-> params], undefined, "pending",
             <<>>, <<>>, <<>>, <<>>)
  /\ UNCHANGED <<rawArgs, dbHost, port, localPort, client, clusterName, taskId,
                 containerRuntimeId, serviceName, processedArgs, target, pc, evicted>>

\* variant: the handler kills whatever pid the child object holds
ChildPidNeverChecked == TRUE

\* if (childProcess.pid)
ChildHasPid == os.pid # undefined

\* the parent receives SIGINT or SIGTERM: handleSignal
handleSignal ==
  /\ os.child # "none"
  /\ os.exit = undefined
  /\ Len(os.signals) < MaxSignals
  /\ \E signal \in {"SIGINT", "SIGTERM"} :
       os' = [os EXCEPT !.signals = Append(@, signal),
                        !.kills = IF ChildHasPid THEN Append(@, [pid |-> os.pid, signal |-> signal]) ELSE @]
  /\ UNCHANGED <<rawArgs, dbHost, port, localPort, client, clusterName, taskId,
                 containerRuntimeId, serviceName, processedArgs, target, pc, evicted, last>>

\* childProcess.on('exit', (code, signal) => resolve(code)): the child exits
\* with a code, or is terminated by a signal and has none
ChildExit ==
  /\ os.child = "running"
  /\ \E event \in {[code |-> "0", signal |-> "null"], [code |-> "1", signal |-> "null"],
                   [code |-> "null", signal |-> "SIGINT"],
                   [code |-> "null", signal |-> "SIGTERM"]} :
       /\ os' = [os EXCEPT !.child = "exited", !.code = event.code, !.signal = event.signal]
       /\ last' = [last EXCEPT !.ret = event.code]
  /\ UNCHANGED <<rawArgs, dbHost, port, localPort, client, clusterName, taskId,
                 containerRuntimeId, serviceName, processedArgs, target, pc, evicted>>

\* an OS manager constructed over a mediator whose rawArgs the test assigned
InitSession ==
  /\ os = NoSession
  /\ client = "stub"
  /\ clusterName = undefined
  /\ taskId = undefined
  /\ containerRuntimeId = undefined
  /\ serviceName = undefined
  /\ processedArgs = <<>>
  /\ target = [taskId |-> undefined, taskDefinition |-> undefined,
               containerName |-> undefined, clusterName |-> undefined]
  /\ pc = "Unstarted"
  /\ evicted = FALSE
  /\ \E profile \in {undefined, "", "fake-profile"}, region \in {undefined, "fake-region"} :
       rawArgs = NoForwardingArgs @@ CliArgs(undefined, undefined, undefined, profile, region)
  /\ dbHost = undefined
  /\ port = undefined
  /\ localPort = undefined
  /\ last = [op |-> "constructor", arg |-> undefined, error |-> undefined,
             ret |-> undefined, calls |-> <<>>, sent |-> <<>>, prompts |-> <<>>,
             results |-> <<>>]

NextSession ==
  \/ runSession("fake-target", "{\"portNumber\":[\"3306\"],\"localPortNumber\":[\"3306\"]}")
  \/ handleSignal
  \/ ChildExit

SpecSession == InitSession /\ [][NextSession]_vars

(***************************************************************************)
(* main: the manager is constructed over the command line, the four target *)
(* stages and the target getter run, then the three forwarding stages and  *)
(* their getter, the two formats are printed and the session is run; the   *)
(* process exits with the session's code.                                  *)
(***************************************************************************)
\* a command line without options, one that names a service, and the one a
\* run without options printed in full after the user picked the cluster prod
\* and the container app, typed the host and chose the ports
MainCommandLines ==
  {NoForwardingArgs @@ CliArgs(undefined, service, undefined, undefined, undefined) :
     service \in {undefined, "web"}}
  \cup {Args("db.typed.example", undefined, "5432", "1234")
          @@ CliArgs("prod", undefined, "app", undefined, undefined)}

InitMain ==
  /\ os = NoSession
  /\ client \in {"stub", "real"}
  /\ clusterName = undefined
  /\ taskId = undefined
  /\ containerRuntimeId = undefined
  /\ serviceName = undefined
  /\ target = [taskId |-> undefined, taskDefinition |-> undefined,
               containerName |-> undefined, clusterName |-> undefined]
  /\ pc = "Unstarted"
  /\ evicted = FALSE
  /\ \E argv \in MainCommandLines :
       /\ rawArgs = NewCliManager(argv).rawArgs
       /\ processedArgs = NewCliManager(argv).processedArgs
  /\ dbHost = undefined
  /\ port = undefined
  /\ localPort = undefined
  /\ last = [op |-> "constructor", arg |-> undefined, error |-> undefined,
             ret |-> undefined, calls |-> <<>>, sent |-> <<>>, prompts |-> <<>>,
             results |-> <<>>]

\* the statement of main that follows the call previous
After(previous) == last.op = previous /\ os.exit = undefined

\* variant: the catch ends the process with status 0 whatever was thrown
MainCatchesAll ==
  /\ pc = "Failed"
  /\ os.exit = undefined
  /\ os' = [os EXCEPT !.exit = "0"]
  /\ UNCHANGED <<rawArgs, dbHost, port, localPort, client, clusterName, taskId,
                 containerRuntimeId, serviceName, processedArgs, target, pc, evicted, last>>

\* the catch of main: an interrupted prompt ends the process with status 0,
\* any other error is thrown again and main's promise is rejected
MainCatch ==
  /\ pc = "Failed"
  /\ os.exit = undefined
  /\ os' = [os EXCEPT !.exit = IF last.error = EXIT_PROMPT THEN "0"
                                ELSE "unhandledRejection"]
  /\ UNCHANGED <<rawArgs, dbHost, port, localPort, client, clusterName, taskId,
                 containerRuntimeId, serviceName, processedArgs, target, pc, evicted, last>>

\* process.exit(exitCode ?? 0)
MainExit ==
  /\ os.child = "exited"
  /\ os.exit = undefined
  /\ os' = [os EXCEPT !.exit = IF os.code = "null" THEN "0" ELSE os.code]
  /\ UNCHANGED <<rawArgs, dbHost, port, localPort, client, clusterName, taskId,
                 containerRuntimeId, serviceName, processedArgs, target, pc, evicted, last>>

NextMain ==
  \/ After("constructor") /\ resolveCluster
  \/ After("resolveCluster") /\ resolveServiceLike(undefined)
  \/ After("resolveService") /\ resolveTask
  \/ After("resolveTask") /\ resolveContainer
  \/ After("resolveContainer") /\ ReadTarget
  \/ After("target") /\ resolveDbHost
  \/ After("resolveDbHost") /\ resolveRemotePort
  \/ After("resolveRemotePort") /\ resolveLocalPort
  \/ After("resolveLocalPort") /\ ReadForwardingParams
  \/ After("forwardingParams") /\ formatCliArgs /\ last'.arg = "only-required"
  \/ After("formatCliArgs") /\ last.arg = "only-required" /\ formatCliArgs /\ last'.arg = "full"
  \/ After("formatCliArgs") /\ last.arg = "full"
       /\ runSession(TargetString(clusterName, taskId, containerRuntimeId),
                     Payload(<<dbHost>>, <<port>>, <<localPort>>))
  \/ handleSignal
  \/ ChildExit
  \/ MainCatch
  \/ MainExit

SpecMain == InitMain /\ [][NextMain]_vars

(***************************************************************************)
(* What the inventory holds, read off the identifiers themselves: the      *)
(* properties below compare what the resolver did with these.              *)
(***************************************************************************)
NameOfClusterArn(arn) == CHOOSE n \in ClusterNames : ClusterArn(n) = arn
NameOfServiceArn(arn) ==
  CHOOSE n \in ServiceNames : \E c \in ClusterNames : ServiceArn(c, n) = arn
IdOfTaskArn(arn) == CHOOSE id \in TaskIds : \E c \in ClusterNames : TaskArn(c, id) = arn

ListedClusters == [i \in 1..Len(last.results[1]) |-> NameOfClusterArn(last.results[1][i])]
ListedServices == [i \in 1..Len(last.results[1]) |-> NameOfServiceArn(last.results[1][i])]

\* the call wrote nothing and asked nothing
FailsAtOnce(error) ==
  /\ last'.error = error
  /\ last'.calls = <<>>
  /\ last'.sent = <<>>
  /\ last'.prompts = <<>>
  /\ UNCHANGED <<os, rawArgs, dbHost, port, localPort, clusterName, taskId, containerRuntimeId, serviceName, processedArgs, target>>

Calls(op) == last'.op = op /\ last.op # op

\* C1: resolveService and resolveTask called while the cluster is unset, and
\* resolveContainer called while the cluster or the task is unset, fail with
\* the error that names the missing prerequisite (the cluster first), send no
\* inventory request, show no prompt and write no state.
C1_StageOrdering ==
  [][ /\ ((Calls("resolveService") \/ Calls("resolveTask") \/ Calls("resolveContainer"))
            /\ clusterName = undefined)
         => FailsAtOnce(targetText.CLUSTER_NOT_RESOLVED)
      /\ (Calls("resolveContainer") /\ clusterName # undefined /\ taskId = undefined)
         => FailsAtOnce(targetText.TASK_ID_NOT_RESOLVED) ]_vars

C1_Witness ==
  /\ last.op = "resolveContainer"
  /\ last.error = targetText.TASK_ID_NOT_RESOLVED
  /\ clusterName = "prod"
  /\ taskId = undefined

\* C2: the target getter returns ecs:<cluster>_<task>_<runtime id> when the
\* three are set, and otherwise fails naming the first one missing in the order
\* cluster, task, runtime identifier.
C2_TargetGetter ==
  last.op = "target" =>
    IF clusterName = undefined THEN last.error = targetText.CLUSTER_NOT_RESOLVED /\ last.ret = undefined
    ELSE IF taskId = undefined THEN last.error = targetText.TASK_ID_NOT_RESOLVED /\ last.ret = undefined
    ELSE IF containerRuntimeId = undefined
    THEN last.error = targetText.CONTAINER_NOT_RESOLVED /\ last.ret = undefined
    ELSE /\ last.error = undefined
         /\ last.ret = "ecs:" \o clusterName \o "_" \o taskId \o "_" \o containerRuntimeId

C2_Witness ==
  /\ last.op = "target"
  /\ last.ret = "ecs:prod_abc123_rt-0a1b"

\* C3: resolveCluster fails with targetText.NO_CLUSTERS on an empty list; with one cluster
\* it selects it without a prompt and records it skippable; with two or more it
\* prompts among all the short names and records the one picked as not
\* skippable; the value recorded is the name put into the shared target.
C3_ResolveCluster ==
  (last.op = "resolveCluster" /\ last.results # <<>>) =>
    /\ Len(ListedClusters) = 0 =>
         /\ last.error = targetText.NO_CLUSTERS
         /\ last.prompts = <<>>
         /\ clusterName = undefined
         /\ processedArgs = <<>>
    /\ Len(ListedClusters) = 1 =>
         /\ last.error = undefined
         /\ last.prompts = <<>>
         /\ clusterName = ListedClusters[1]
         /\ target.clusterName = ListedClusters[1]
         /\ processedArgs = <<[key |-> "cluster", skippable |-> TRUE,
                               value |-> ListedClusters[1]]>>
    /\ Len(ListedClusters) >= 2 =>
         /\ Len(last.prompts) = 1
         /\ last.prompts[1].kind = "select"
         /\ last.prompts[1].choices = ListedClusters
         /\ last.error \in {undefined, EXIT_PROMPT}
         /\ last.error = undefined =>
              /\ last.prompts[1].picked \in 1..Len(ListedClusters)
              /\ clusterName = ListedClusters[last.prompts[1].picked]
              /\ target.clusterName = clusterName
              /\ processedArgs = <<[key |-> "cluster", skippable |-> FALSE,
                                    value |-> clusterName]>>

C3_Witness ==
  /\ last.op = "resolveCluster"
  /\ last.results # <<>>
  /\ Len(last.results[1]) = 2
  /\ last.error = undefined
  /\ clusterName = "dev"
  /\ target.clusterName = "dev"

\* C4: resolveService called without a hint sends no request and shows no
\* prompt, leaves the service name unset, records the service argument as
\* skippable with no value, and returns the resolver.
C4_NoServiceHint ==
  (last.op = "resolveService" /\ last.arg \in {undefined, ""} /\ clusterName # undefined) =>
    /\ last.error = undefined
    /\ last.ret = "this"
    /\ last.calls = <<>>
    /\ last.sent = <<>>
    /\ last.prompts = <<>>
    /\ serviceName = undefined
    /\ HasArg(processedArgs, "service")
    /\ ArgOf(processedArgs, "service") =
         [key |-> "service", skippable |-> TRUE, value |-> undefined]

C4_Witness ==
  /\ last.op = "resolveService"
  /\ last.arg = undefined
  /\ last.ret = "this"
  /\ HasArg(processedArgs, "service")

\* C5: a hint equal to the name of one of the N services listed is accepted
\* without a prompt, and the service argument is skippable exactly when N = 1.
C5_ExactMatch ==
  (/\ last.op = "resolveService"
   /\ last.results # <<>>
   /\ \E i \in 1..Len(ListedServices) : ListedServices[i] = last.arg) =>
    /\ last.error = undefined
    /\ last.prompts = <<>>
    /\ serviceName = last.arg
    /\ ArgOf(processedArgs, "service") =
         [key |-> "service", skippable |-> (Len(ListedServices) = 1), value |-> last.arg]

C5_Witness ==
  /\ last.op = "resolveService"
  /\ last.results # <<>>
  /\ Len(last.results[1]) = 2
  /\ last.prompts = <<>>
  /\ serviceName = "web"

\* the services listed that the fuzzy search matches to the hint, and their
\* places in the list
FuzzyCandidates == {n \in {ListedServices[i] : i \in 1..Len(ListedServices)} :
                      FuseMatches(last.arg, n)}
FuzzyPlaces == {i \in 1..Len(ListedServices) : FuseMatches(last.arg, ListedServices[i])}

HintWithoutExactMatch ==
  /\ last.op = "resolveService"
  /\ last.arg \notin {undefined, ""}
  /\ last.results # <<>>
  /\ \A i \in 1..Len(ListedServices) : ListedServices[i] # last.arg

\* C6: a hint without an exact match is never accepted without consent: one
\* fuzzy candidate is put to a yes/no question and declining fails with
\* targetText.FUZZY_SERVICE_NOT_CONFIRMED, several are put to a choice; the service set is
\* a fuzzy candidate and the argument is not skippable.
C6_FuzzyNeedsConsent ==
  (HintWithoutExactMatch /\ FuzzyCandidates # {}) =>
    /\ Len(last.prompts) = 1
    /\ Cardinality(FuzzyPlaces) = 1 =>
         /\ last.prompts[1].kind = "confirm"
         /\ last.prompts[1].confirmed = "no" => last.error = targetText.FUZZY_SERVICE_NOT_CONFIRMED
         /\ last.prompts[1].confirmed = "yes" => last.error = undefined
    /\ Cardinality(FuzzyPlaces) >= 2 =>
         /\ last.prompts[1].kind = "select"
         /\ {last.prompts[1].choices[i] : i \in 1..Len(last.prompts[1].choices)}
              = FuzzyCandidates
    /\ last.error # undefined => serviceName = undefined /\ ~HasArg(processedArgs, "service")
    /\ last.error = undefined =>
         /\ serviceName \in FuzzyCandidates
         /\ last.prompts[1].kind = "select" =>
              serviceName = last.prompts[1].choices[last.prompts[1].picked]
         /\ ArgOf(processedArgs, "service") =
              [key |-> "service", skippable |-> FALSE, value |-> serviceName]

C6_Witness ==
  /\ last.op = "resolveService"
  /\ Len(last.prompts) = 1
  /\ last.prompts[1].kind = "confirm"
  /\ last.error = targetText.FUZZY_SERVICE_NOT_CONFIRMED

\* C7: with a hint, an empty service list fails with targetText.NO_SERVICES, and a list
\* with neither an exact nor a fuzzy match fails with targetText.SERVICE_NOT_MATCHED; no
\* prompt is shown and no service is set.
C7_NothingToMatch ==
  /\ (last.op = "resolveService" /\ last.results # <<>> /\ Len(ListedServices) = 0) =>
       /\ last.error = targetText.NO_SERVICES
       /\ last.prompts = <<>>
       /\ serviceName = undefined
       /\ ~HasArg(processedArgs, "service")
  /\ (HintWithoutExactMatch /\ Len(ListedServices) > 0 /\ FuzzyCandidates = {}) =>
       /\ last.error = targetText.SERVICE_NOT_MATCHED
       /\ last.prompts = <<>>
       /\ serviceName = undefined
       /\ ~HasArg(processedArgs, "service")

C7_Witness ==
  /\ last.op = "resolveService"
  /\ last.arg = "cache"
  /\ last.results # <<>>
  /\ Len(last.results[1]) = 2
  /\ last.error = targetText.SERVICE_NOT_MATCHED

\* C8: resolveTask lists the RUNNING tasks of the resolved cluster, filtered by
\* the service when one was resolved, and fails with targetText.NO_TASKS when there are
\* none; otherwise it describes all the candidates in one call; it takes the
\* first candidate without a prompt exactly when there is one candidate or a
\* service filter was applied, and in every other case prompts among all the
\* described tasks.
C8_ResolveTask ==
  (last.op = "resolveTask" /\ clusterName # undefined) =>
    /\ last.calls # <<>>
    /\ last.calls[1] = [array |-> FALSE,
                        fields |-> [cluster |-> clusterName, serviceName |-> serviceName,
                                    desiredStatus |-> "RUNNING"]]
    /\ (last.results # <<>> /\ last.results[1] = <<>>) =>
         /\ last.error = targetText.NO_TASKS
         /\ Len(last.calls) = 1
         /\ last.prompts = <<>>
         /\ taskId = undefined
    /\ (last.results # <<>> /\ last.results[1] # <<>>) =>
         /\ Len(last.calls) = 2
         /\ last.calls[2] = [array |-> FALSE,
                             fields |-> [taskArns |-> last.results[1],
                                         clusterName |-> clusterName]]
    /\ Len(last.results) = 2 =>
         LET candidates == last.results[1]
             described == last.results[2]
             filtered == serviceName # undefined
         IN IF Len(candidates) = 1 \/ filtered
            THEN /\ last.prompts = <<>>
                 /\ taskId = IdOfTaskArn(candidates[1])
                 /\ target.taskId = taskId
            ELSE /\ Len(last.prompts) = 1
                 /\ last.prompts[1].kind = "select"
                 /\ Len(last.prompts[1].choices) = Len(described)
                 /\ \A i \in 1..Len(described) :
                      last.prompts[1].choices[i].taskId = IdOfTaskArn(described[i].taskArn)
                 /\ last.error = undefined =>
                      /\ taskId = IdOfTaskArn(described[last.prompts[1].picked].taskArn)
                      /\ target.taskId = taskId

C8_Witness ==
  /\ last.op = "resolveTask"
  /\ serviceName = "web"
  /\ Len(last.results) = 2
  /\ Len(last.results[1]) = 2
  /\ last.error = undefined
  /\ last.prompts = <<>>
  /\ taskId = "def456"

\* the container written by resolveContainer
Stored(container, skippable) ==
  /\ target.containerName = container.name
  /\ containerRuntimeId = container.runtimeId
  /\ HasArg(processedArgs, "container")
  /\ ArgOf(processedArgs, "container") =
       [key |-> "container", skippable |-> skippable, value |-> container.name]

\* C9: resolveContainer describes the selected task anew, fails with
\* targetText.NO_CONTAINERS_IN_TASK when the task has no containers, takes a single
\* container without a prompt as skippable, and prompts among several as not
\* skippable; it puts the container name into the shared target and keeps the
\* runtime identifier, so that the third part of the target descriptor is the
\* runtime identifier of the container and not its name.
C9_ResolveContainer ==
  /\ (last.op = "resolveContainer" /\ clusterName # undefined /\ taskId # undefined) =>
       /\ last.calls = <<[array |-> FALSE,
                          fields |-> [taskArns |-> <<taskId>>, clusterName |-> clusterName]]>>
       /\ (last.results # <<>> /\ last.results[1] # <<>>) =>
            LET task == last.results[1][1]
                listed == IF "containers" \in DOMAIN task THEN task.containers ELSE <<>>
            IN /\ Len(listed) = 0 =>
                    /\ last.error = targetText.NO_CONTAINERS_IN_TASK
                    /\ last.prompts = <<>>
                    /\ containerRuntimeId = undefined
                    /\ target.containerName = undefined
                    /\ ~HasArg(processedArgs, "container")
               /\ Len(listed) = 1 =>
                    /\ last.error = undefined
                    /\ last.prompts = <<>>
                    /\ Stored(listed[1], TRUE)
               /\ Len(listed) >= 2 =>
                    /\ Len(last.prompts) = 1
                    /\ last.prompts[1].kind = "select"
                    /\ Len(last.prompts[1].choices) = Len(listed)
                    /\ \A i \in 1..Len(listed) : last.prompts[1].choices[i].name = listed[i].name
                    /\ last.error \in {undefined, EXIT_PROMPT}
                    /\ last.error = undefined => Stored(listed[last.prompts[1].picked], FALSE)
  /\ (last.op = "target" /\ last.error = undefined) =>
       /\ target.containerName # undefined
       /\ last.ret = "ecs:" \o clusterName \o "_" \o taskId \o "_"
                       \o ContainerNamed(target.containerName).runtimeId
       /\ last.ret # "ecs:" \o clusterName \o "_" \o taskId \o "_" \o target.containerName

C9_Witness ==
  /\ last.op = "resolveContainer"
  /\ Len(last.prompts) = 1
  /\ last.error = undefined
  /\ target.containerName = "sidecar"
  /\ containerRuntimeId = "rt-9f8e"

\* C10: over the paginated inventory client of the source (paginate,
\* paginateDescribeTasksRequest), resolveContainer called for a selected task
\* that has stopped running fails with targetText.TASK_NOT_FOUND, unless the transport
\* rejects the request.
C10_TaskNotFoundOverClient ==
  (/\ client = "real"
   /\ last.op = "resolveContainer"
   /\ clusterName # undefined
   /\ taskId # undefined
   /\ evicted
   /\ last.error # API_ERROR) =>
    last.error = targetText.TASK_NOT_FOUND

\* C11: in the end-to-end scenario (single cluster prod, no service hint, two
\* running tasks, a single container in the task picked) the only prompt
\* shown is the selection of the task, and once task abc123 is picked the
\* target descriptor is ecs:prod_abc123_<runtime id of its container>.
C11_EndToEnd ==
  /\ (last.op \in {"resolveCluster", "resolveService", "resolveContainer", "target"})
       => last.prompts = <<>>
  /\ (last.op = "resolveCluster" /\ last.results # <<>>) =>
       last.error = undefined /\ clusterName = "prod"
  /\ (last.op = "resolveTask" /\ Len(last.results) = 2) =>
       /\ Len(last.prompts) = 1
       /\ last.prompts[1].kind = "select"
       /\ last.prompts[1].message = targetText.SELECT_TASK_PROMPT
       /\ {last.prompts[1].choices[i].taskId : i \in 1..Len(last.prompts[1].choices)} = TaskIds
  /\ (last.op = "resolveContainer" /\ last.results # <<>>) =>
       /\ last.error = undefined
       /\ target.containerName = last.results[1][1].containers[1].name
       /\ containerRuntimeId = last.results[1][1].containers[1].runtimeId
  /\ (pc = "ContainerResolved" /\ taskId = "abc123" /\ containerRuntimeId # undefined
        /\ last.op = "target") =>
       /\ last.error = undefined
       /\ last.ret = "ecs:prod_abc123_" \o ContainerNamed(target.containerName).runtimeId

C11_Witness ==
  /\ pc = "ContainerResolved"
  /\ last.op = "target"
  /\ last.ret = "ecs:prod_abc123_rt-0a1b"
  /\ target.containerName = "app"
  /\ processedArgs = <<[key |-> "cluster", skippable |-> TRUE, value |-> "prod"],
                       [key |-> "service", skippable |-> TRUE, value |-> undefined],
                       [key |-> "container", skippable |-> TRUE, value |-> "app"]>>

\* the page whose token is absent or empty
LastPage(page) == ~HasKey(page, "reject") /\ page.nextToken \in {undefined, ""}
\* a page that is followed by another
MorePages(page) == ~HasKey(page, "reject") /\ page.nextToken \notin {undefined, ""}

RECURSIVE ItemsOfPages(_, _)
\* the items of the first k pages, in page order
ItemsOfPages(pages, k) ==
  IF k = 0 THEN <<>>
  ELSE ItemsOfPages(pages, k - 1)
       \o (IF "items" \in DOMAIN pages[k] THEN pages[k].items ELSE <<>>)

ListKinds == {"ListTasksCommand", "ListServicesCommand", "ListClustersCommand"}

\* C12: for a list query whose responses form k pages, paginateClientCommand
\* sends exactly k requests in sequence, the first with no continuation token
\* and each later one with the token of the previous response and the same
\* query fields, stops at the first response whose token is absent or empty,
\* and returns the items of the k pages concatenated in page order.
C12_ListPagination ==
  (/\ last.op = "paginateClientCommand"
   /\ DOMAIN last.arg.commandInput \subseteq {"cluster", "serviceName", "desiredStatus"}) =>
    LET query == last.arg.commandInput
        pages == last.arg.pages
    IN \A k \in 1..Len(pages) :
         (LastPage(pages[k]) /\ \A j \in 1..(k - 1) : MorePages(pages[j])) =>
           /\ last.error = undefined
           /\ Len(last.sent) = k
           /\ \A j \in 1..k :
                /\ last.sent[j].command \in ListKinds
                /\ last.sent[j].command = last.sent[1].command
                /\ DOMAIN last.sent[j].input = DOMAIN query \cup {"nextToken"}
                /\ \A f \in DOMAIN query : last.sent[j].input[f] = query[f]
                /\ last.sent[j].input.nextToken =
                     (IF j = 1 THEN undefined ELSE pages[j - 1].nextToken)
           /\ last.ret = ItemsOfPages(pages, k)

C12_Witness ==
  /\ last.op = "paginateClientCommand"
  /\ Len(last.sent) = 2
  /\ last.sent[2].input.nextToken = Token(1)
  /\ last.ret = <<"arn-1", "arn-2", "arn-3">>

\* a response that ends a batch well
BatchDescribed(response) ==
  /\ ~HasKey(response, "reject")
  /\ ("failures" \in DOMAIN response => response.failures = <<>>)
  /\ "tasks" \in DOMAIN response
  /\ response.tasks # <<>>

\* a response that reports a failure
BatchFailed(response) ==
  /\ ~HasKey(response, "reject")
  /\ "failures" \in DOMAIN response
  /\ response.failures # <<>>

RECURSIVE TasksOfResponses(_, _)
\* the tasks of the first k responses, in batch order
TasksOfResponses(responses, k) ==
  IF k = 0 THEN <<>> ELSE TasksOfResponses(responses, k - 1) \o responses[k].tasks

C14_DescribeFailure ==
  (last.op = "paginateDescribeTasksRequest") =>
    LET responses == last.arg.responses
    IN \A f \in 1..Len(responses) :
         (BatchFailed(responses[f]) /\ \A i \in 1..(f - 1) : BatchDescribed(responses[i])) =>
           /\ last.error = "Failed to describe some tasks: " \o ToString(responses[f].failures)
           /\ last.ret = <<>>
           /\ Len(last.sent) = f
           /\ \A i \in 1..f :
                last.sent[i].input.tasks =
                  SubSeq(last.arg.rawInput.fields.taskArns,
                         (i - 1) * last.arg.batchSize + 1,
                         IF i * last.arg.batchSize < Len(last.arg.rawInput.fields.taskArns)
                         THEN i * last.arg.batchSize
                         ELSE Len(last.arg.rawInput.fields.taskArns))

C14_Witness ==
  /\ last.op = "paginateDescribeTasksRequest"
  /\ Len(last.arg.responses) = 3
  /\ BatchDescribed(last.arg.responses[1])
  /\ BatchFailed(last.arg.responses[2])
  /\ Len(last.sent) = 2
  /\ last.error # undefined

(***************************************************************************)
(* What the inventory said of the container's environment in the last      *)
(* call, read off the two answers themselves.                              *)
(***************************************************************************)
EnvFetched == last.op = "resolveDbHost" /\ Len(last.results) = 2

StaticListed ==
  LET response == last.results[1]
      found == SelectSeq(response.taskDefinition.containerDefinitions,
                         LAMBDA container : container.name = target.containerName)
  IN IF ~HasKey(response, "taskDefinition") THEN <<>>
     ELSE IF found = <<>> THEN <<>>
     ELSE IF ~HasKey(found[1], "environment") THEN <<>>
     ELSE found[1].environment

OverrideListed ==
  LET task == last.results[2][1]
      found == SelectSeq(task.overrides.containerOverrides,
                         LAMBDA override : override.name = target.containerName)
  IN IF ~HasKey(task, "overrides") THEN <<>>
     ELSE IF ~HasKey(task.overrides, "containerOverrides") THEN <<>>
     ELSE IF found = <<>> THEN <<>>
     ELSE IF ~HasKey(found[1], "environment") THEN <<>>
     ELSE found[1].environment

Declares(environment, name) == \E i \in 1..Len(environment) : environment[i].name = name
ValueOf(environment, name) ==
  environment[CHOOSE i \in 1..Len(environment) :
                /\ environment[i].name = name
                /\ \A j \in (i + 1)..Len(environment) : environment[j].name # name].value

EffectiveNames ==
  {name \in EnvNames : Declares(StaticListed, name) \/ Declares(OverrideListed, name)}
EffectiveValue(name) ==
  IF Declares(OverrideListed, name) THEN ValueOf(OverrideListed, name)
  ELSE ValueOf(StaticListed, name)

PromptKinds == [i \in 1..Len(last.prompts) |-> last.prompts[i].kind]
Shows(kind) == \E i \in 1..Len(last.prompts) : last.prompts[i].kind = kind

\* C15: resolveDbHost takes (a) an explicit db-host as it is, with no request
\* and no prompt; (b) else the hinted variable from the effective container
\* environment, with no prompt; (c) else it asks whether to search the
\* container environment and offers the variables only after a yes and over
\* a non-empty environment; (d) after a no, or over an empty environment, it
\* asks for the host as free text. Every branch that resolves a host records
\* it under db-host as not skippable.
C15_DbHostPriority ==
  last.op = "resolveDbHost" =>
    LET host == rawArgs["db-host"]
        hint == rawArgs["db-host-from-container-env"]
    IN /\ host # undefined =>
            /\ last.error = undefined
            /\ dbHost = host
            /\ last.calls = <<>>
            /\ last.sent = <<>>
            /\ last.prompts = <<>>
       /\ (host = undefined /\ hint # undefined) =>
            /\ last.prompts = <<>>
            /\ last.error = undefined => (EnvFetched /\ dbHost = EffectiveValue(hint))
       /\ (host = undefined /\ hint = undefined) =>
            /\ last.prompts # <<>>
            /\ last.prompts[1].kind = "confirm"
            /\ last.prompts[1].message = forwardingText.SEARCH_ENV_PROMPT
            /\ Shows("select") =>
                 /\ last.prompts[1].confirmed = "yes"
                 /\ EnvFetched
                 /\ EffectiveNames # {}
                 /\ PromptKinds = <<"confirm", "select">>
                 /\ {last.prompts[2].choices[i].name :
                       i \in 1..Len(last.prompts[2].choices)} = EffectiveNames
                 /\ \A i \in 1..Len(last.prompts[2].choices) :
                      last.prompts[2].choices[i].value
                        = EffectiveValue(last.prompts[2].choices[i].name)
                 /\ last.error = undefined =>
                      dbHost = last.prompts[2].choices[last.prompts[2].picked].value
            /\ (\/ last.prompts[1].confirmed = "no"
                \/ (last.prompts[1].confirmed = "yes" /\ EnvFetched /\ EffectiveNames = {})) =>
                 /\ PromptKinds = <<"confirm", "input">>
                 /\ last.prompts[2].message = forwardingText.TYPE_HOST_PROMPT
                 /\ last.error = undefined => dbHost = last.prompts[2].answer.value
            /\ Shows("input") =>
                 \/ last.prompts[1].confirmed = "no"
                 \/ (EnvFetched /\ EffectiveNames = {})
       /\ last.error = undefined =>
            /\ HasArg(processedArgs, "db-host")
            /\ ArgOf(processedArgs, "db-host")
                 = [key |-> "db-host", skippable |-> FALSE, value |-> dbHost]

C15_Witness ==
  /\ last.op = "resolveDbHost"
  /\ last.error = undefined
  /\ PromptKinds = <<"confirm", "select">>
  /\ Len(last.prompts[2].choices) = 2
  /\ last.prompts[2].picked = 2
  /\ dbHost = "b"
  /\ HasArg(processedArgs, "db-host")

\* the value the overlay gives a variable: the override's where the task
\* overrides it, the task definition's where only the task definition has it
Overlaid(name, value) ==
  /\ (Declares(StaticListed, name) /\ Declares(OverrideListed, name)) =>
       value = ValueOf(OverrideListed, name)
  /\ (Declares(StaticListed, name) /\ ~Declares(OverrideListed, name)) =>
       value = ValueOf(StaticListed, name)
  /\ (~Declares(StaticListed, name) /\ Declares(OverrideListed, name)) =>
       value = ValueOf(OverrideListed, name)

\* C16: the effective container environment is the static variables of the
\* selected container overlaid by the task's overrides for that container: a
\* variable in both has the override's value, a variable in one of them keeps
\* its value. With the hint DB_HOST, static {DB_HOST: a} and override
\* {DB_HOST: b} the host resolves to b.
C16_EffectiveEnv ==
  EnvFetched =>
    LET hint == rawArgs["db-host-from-container-env"]
    IN /\ Shows("select") =>
            LET choices == last.prompts[2].choices
            IN /\ \A name \in EffectiveNames : \E i \in 1..Len(choices) : choices[i].name = name
               /\ \A i \in 1..Len(choices) :
                    /\ choices[i].name \in EffectiveNames
                    /\ Overlaid(choices[i].name, choices[i].value)
       /\ (rawArgs["db-host"] = undefined /\ hint # undefined /\ last.error = undefined) =>
            Overlaid(hint, dbHost)
       /\ (/\ rawArgs["db-host"] = undefined
           /\ hint = "DB_HOST"
           /\ StaticListed = <<[name |-> "DB_HOST", value |-> "a"]>>
           /\ OverrideListed = <<[name |-> "DB_HOST", value |-> "b"]>>) =>
            (last.error = undefined /\ dbHost = "b")

C16_Witness ==
  /\ EnvFetched
  /\ rawArgs["db-host"] = undefined
  /\ rawArgs["db-host-from-container-env"] = "DB_HOST"
  /\ StaticListed = <<[name |-> "DB_HOST", value |-> "a"]>>
  /\ OverrideListed = <<[name |-> "DB_HOST", value |-> "b"]>>
  /\ last.error = undefined
  /\ dbHost = "b"

\* C17: with a hint, resolveDbHost resolves the host to the value the hinted
\* variable has in the effective container environment whenever the variable
\* is there, and fails with EnvVarMissing exactly when the variable is not
\* there.
C17_HintLookup ==
  (/\ EnvFetched
   /\ rawArgs["db-host"] = undefined
   /\ rawArgs["db-host-from-container-env"] # undefined) =>
    LET hint == rawArgs["db-host-from-container-env"]
    IN /\ hint \in EffectiveNames =>
            (last.error = undefined /\ dbHost = EffectiveValue(hint))
       /\ hint \notin EffectiveNames <=> last.error = ENV_VAR_MISSING(hint)

\* resolveDbHost went for the container environment
AskedForEnv ==
  /\ last.op = "resolveDbHost"
  /\ rawArgs["db-host"] = undefined
  /\ \/ rawArgs["db-host-from-container-env"] # undefined
     \/ (last.prompts # <<>> /\ last.prompts[1].confirmed = "yes")

PrerequisiteErrors ==
  {forwardingText.CLUSTER_NAME_MISSING, forwardingText.CONTAINER_NAME_MISSING,
   forwardingText.TASK_MISSING}

WellKnownPorts == {"3306", "5432", "27017", "5439"}
MenuValues(prompt) ==
  {prompt.choices[i].value : i \in Selectable(prompt.choices)}

\* C19: resolveRemotePort takes an explicit port as it is, without a prompt;
\* otherwise the port is the value picked from the menu of the well-known
\* ports 3306, 5432, 27017 and 5439 or, when the entry custom is picked, the
\* number entered at the numeric prompt; custom is never stored as the port.
C19_RemotePort ==
  last.op = "resolveRemotePort" =>
    /\ rawArgs["port"] # undefined =>
         /\ last.error = undefined
         /\ port = rawArgs["port"]
         /\ last.prompts = <<>>
    /\ rawArgs["port"] = undefined =>
         /\ last.prompts # <<>>
         /\ last.prompts[1].kind = "select"
         /\ MenuValues(last.prompts[1]) = WellKnownPorts \cup {"custom"}
         /\ last.error = undefined =>
              LET picked == last.prompts[1].choices[last.prompts[1].picked].value
              IN IF picked \in WellKnownPorts
                 THEN port = picked /\ Len(last.prompts) = 1
                 ELSE /\ PromptKinds = <<"select", "number">>
                      /\ last.prompts[2].answer.kind = "number" =>
                           port = ToString(last.prompts[2].answer.value)
    /\ port # "custom"
    /\ last.error = undefined =>
         /\ HasArg(processedArgs, "port")
         /\ ArgOf(processedArgs, "port") = [key |-> "port", skippable |-> FALSE, value |-> port]
    /\ last.error # undefined => (port = undefined /\ ~HasArg(processedArgs, "port"))

C19_Witness ==
  /\ last.op = "resolveRemotePort"
  /\ last.error = undefined
  /\ PromptKinds = <<"select", "number">>
  /\ last.prompts[1].choices[last.prompts[1].picked].value = "custom"
  /\ port = "1234"
  /\ HasArg(processedArgs, "port")

BatchUnfailed(response) ==
  /\ ~HasKey(response, "reject")
  /\ ("failures" \in DOMAIN response => response.failures = <<>>)
TasksIn(response) == IF "tasks" \in DOMAIN response THEN response.tasks ELSE <<>>

\* C30: with a non-empty identifier list and no batch reporting failures,
\* paginateDescribeTasksRequest fails with the no-tasks error only when the
\* responses of all batches together hold no task; an empty response for one
\* batch while another batch returns tasks does not fail the call.
C30_NoTasksOnlyWhenAllEmpty ==
  (/\ last.op = "paginateDescribeTasksRequest"
   /\ last.arg.rawInput.fields.taskArns # <<>>
   /\ \A i \in 1..Len(last.arg.responses) : BatchUnfailed(last.arg.responses[i])) =>
    /\ last.error = NO_TASKS_RETURNED <=>
         \A i \in 1..Len(last.arg.responses) : TasksIn(last.arg.responses[i]) = <<>>
    /\ (\E i \in 1..Len(last.arg.responses) : TasksIn(last.arg.responses[i]) # <<>>) =>
         last.error = undefined

\* the three forwarding stages have completed: each has recorded its argument
AllForwardingStagesDone ==
  /\ HasArg(processedArgs, "db-host")
  /\ HasArg(processedArgs, "port")
  /\ HasArg(processedArgs, "local-port")

\* C21: once resolveDbHost, resolveRemotePort and resolveLocalPort have all
\* completed, reading forwardingParams succeeds and yields the payload with
\* exactly the fields host, portNumber and localPortNumber, each a list of
\* the one value its stage resolved.
C21_ForwardingPayload ==
  (last.op = "forwardingParams" /\ AllForwardingStagesDone) =>
    /\ last.error = undefined
    /\ last.ret = Payload(<<ArgOf(processedArgs, "db-host").value>>,
                          <<ArgOf(processedArgs, "port").value>>,
                          <<ArgOf(processedArgs, "local-port").value>>)

\* C22: reading forwardingParams while the host, the remote port or the local
\* port is unresolved fails with the error of an unresolved field: the host's
\* if the host is unset, else the remote port's if that is unset, else the
\* local port's; no payload is produced.
C22_ForwardingParamsUnset ==
  (last.op = "forwardingParams"
     /\ (dbHost = undefined \/ port = undefined \/ localPort = undefined)) =>
    /\ last.ret = undefined
    /\ last.error = IF dbHost = undefined THEN forwardingText.DB_HOST_NOT_SET
                    ELSE IF port = undefined THEN forwardingText.DB_PORT_NOT_SET
                    ELSE forwardingText.LOCAL_PORT_NOT_SET

\* the entries formatCliArgs is to render: those with a defined value and,
\* for only-required, not skippable, in insertion order
Rendered(format) ==
  SelectSeq(processedArgs,
            LAMBDA e : e.value # undefined /\ (format = "only-required" => ~e.skippable))
KeysOf(entries) == {entries[i].key : i \in 1..Len(entries)}

RECURSIVE TokensOf(_)
\* the '--key value' tokens of entries, one to a line
TokensOf(entries) ==
  IF entries = <<>> THEN ""
  ELSE "\t--" \o entries[1].key \o " " \o entries[1].value
         \o (IF Len(entries) = 1 THEN "" ELSE " \\\n" \o TokensOf(Tail(entries)))

\* C23: formatCliArgs('full') renders exactly the processedArgs entries that
\* have a defined value, as '--key value' tokens in insertion order;
\* 'only-required' renders exactly those of them that are not skippable, so
\* the keys rendered by only-required are among those rendered by full.
C23_FormatCliArgs ==
  (last.op = "formatCliArgs" /\ last.error = undefined) =>
    /\ last.ret = TokensOf(Rendered(last.arg))
    /\ KeysOf(Rendered("only-required")) \subseteq KeysOf(Rendered("full"))

\* no resolver stage has recorded an argument
NothingRecordedByResolvers ==
  \A i \in 1..Len(processedArgs) :
    processedArgs[i].key \notin {"cluster", "service", "container", "db-host",
                                 "db-host-from-container-env", "port", "local-port"}

\* C24: while no resolver stage has recorded an argument, equivalent and
\* formatCliArgs fail with the no-resolver-data error, whatever options the
\* command line gave.
C24_NoResolverData ==
  (last.op \in {"equivalent", "formatCliArgs"} /\ NothingRecordedByResolvers) =>
    last.error = NO_RESOLVER_DATA

\* C29: every SIGINT or SIGTERM the parent receives once the session process
\* is spawned is forwarded to the child with the same signal when the child
\* has a process ID, and to nobody when it has none; handling the signal
\* changes no field of the resolvers or of the mediator; the promise of
\* runSession is settled exactly when the child has exited, with the child's
\* exit code, or null when a signal terminated it.
C29_SignalsAndExit ==
  [][/\ os'.kills = IF os'.pid = undefined THEN <<>>
                    ELSE [i \in 1..Len(os'.signals) |->
                            [pid |-> os'.pid, signal |-> os'.signals[i]]]
     /\ os'.signals # os.signals =>
          UNCHANGED <<rawArgs, dbHost, port, localPort, clusterName, taskId,
                      containerRuntimeId, serviceName, processedArgs, target, last>>
     /\ last'.op = "runSession" =>
          /\ last'.ret # "pending" <=> os'.child = "exited"
          /\ os'.child = "exited" =>
               last'.ret = IF os'.signal # "null" THEN "null" ELSE os'.code]_vars

C29_Witness ==
  /\ last.op = "runSession"
  /\ os.child = "exited"
  /\ os.pid = "1234"
  /\ os.signals = <<"SIGINT", "SIGTERM">>
  /\ Len(os.kills) = 2
  /\ os.signal = "SIGTERM"
  /\ last.ret = "null"

\* the names of the containers of the task resolveContainer described
DescribedContainerNames ==
  IF last'.results # <<>> /\ last'.results[1] # <<>> /\ HasKey(last'.results[1][1], "containers")
  THEN {last'.results[1][1].containers[i].name : i \in 1..Len(last'.results[1][1].containers)}
  ELSE {}

\* C25: a run started with the arguments an earlier run printed in full,
\* against the same inventory, resolves what the arguments name: the cluster
\* when the inventory lists it, the container when the task runs it, the DB
\* host, the remote port and the local port, whatever the prompts are
\* answered.
C25_Replay ==
  [][/\ (Calls("resolveCluster") /\ last'.error = undefined
           /\ rawArgs["cluster"] # undefined
           /\ \E i \in 1..Len(last'.results[1]) :
                last'.results[1][i] = ClusterArn(rawArgs["cluster"]))
          => clusterName' = rawArgs["cluster"]
     /\ (Calls("resolveContainer") /\ last'.error = undefined
           /\ rawArgs["container"] # undefined
           /\ rawArgs["container"] \in DescribedContainerNames)
          => target'.containerName = rawArgs["container"]
     /\ (Calls("resolveDbHost") /\ last'.error = undefined /\ rawArgs["db-host"] # undefined)
          => dbHost' = rawArgs["db-host"]
     /\ (Calls("resolveRemotePort") /\ last'.error = undefined /\ rawArgs["port"] # undefined)
          => port' = rawArgs["port"]
     /\ (Calls("resolveLocalPort") /\ last'.error = undefined
           /\ rawArgs["local-port"] # undefined)
          => localPort' = rawArgs["local-port"]]_vars

\* C26: in a run started with a service argument, resolveTask lists the
\* running tasks of that service and takes the first without asking; the
\* task prompt is shown only in a run started without a service argument.
C26_ServiceArgument ==
  [][(Calls("resolveTask") /\ last'.error = undefined /\ rawArgs["service"] # undefined) =>
       /\ last'.calls[1].fields.serviceName = rawArgs["service"]
       /\ last'.prompts = <<>>
       /\ taskId' = PopSegment(last'.results[1][1])]_vars

\* C27: in main the session is started only after the four target stages and
\* the three forwarding stages have completed, with the target descriptor
\* and the forwarding payload computed from what they resolved; after a
\* stage has failed nothing more is called, asked or retried and the session
\* is not started.
C27_SessionAfterStages ==
  [][/\ (os'.child # "none" /\ os.child = "none") =>
          /\ ~Falsy(clusterName) /\ HasArg(processedArgs, "service")
          /\ ~Falsy(taskId) /\ ~Falsy(containerRuntimeId)
          /\ ~Falsy(dbHost) /\ ~Falsy(port) /\ ~Falsy(localPort)
          /\ pc = "LocalPortResolved"
          /\ last'.arg.target = TargetString(clusterName, taskId, containerRuntimeId)
          /\ last'.arg.params = Payload(<<dbHost>>, <<port>>, <<localPort>>)
     /\ last.error # undefined =>
          /\ last' = last
          /\ os'.child = "none"
          /\ UNCHANGED <<clusterName, taskId, containerRuntimeId, serviceName, dbHost,
                         port, localPort, processedArgs, target>>]_vars

C27_Witness ==
  /\ last.op = "runSession"
  /\ os.child = "running"
  /\ pc = "LocalPortResolved"
  /\ Len(processedArgs) = 6

\* the prompt was closed by the user
Interrupted(prompt) ==
  CASE prompt.kind = "select" -> prompt.picked = Interrupt /\ prompt.choices # <<>>
    [] prompt.kind = "confirm" -> prompt.confirmed = "interrupt"
    [] OTHER -> prompt.answer.kind = "interrupt"

\* C28: a run in which the user closes a prompt of a target or forwarding
\* stage ends with exit status 0 and without a session; a run that fails in
\* any other way ends as a failure, never with status 0.
C28_GracefulInterrupt ==
  (os.exit # undefined /\ last.error # undefined) =>
    /\ os.child = "none"
    /\ os.exit = "0" <=>
         (last.prompts # <<>> /\ Interrupted(last.prompts[Len(last.prompts)]))

C28_Witness ==
  /\ os.exit = "0"
  /\ last.op = "resolveRemotePort"
  /\ last.error = EXIT_PROMPT
  /\ os.child = "none"

\* the describe inputs among the inputs the last operation handed to paginate
DescribeInputs ==
  {i \in 1..Len(last.calls) : ~last.calls[i].array /\ HasKey(last.calls[i].fields, "taskArns")}

\* C31: over the paginate of the source, a describe input ({taskArns,
\* clusterName}) built by a resolver stage reaches the bulk describe routine:
\* the call does not end with the list routine's 'Unknown ECS client input
\* type', and a DescribeTasksCommand for its identifiers and its cluster is
\* the request made for it.
C31_PaginateRouting ==
  (client = "real" /\ DescribeInputs # {}) =>
    /\ last.error # UNKNOWN_INPUT
    /\ \E j \in 1..Len(last.sent) :
         /\ last.sent[j].command = "DescribeTasksCommand"
         /\ \A i \in DescribeInputs :
              /\ last.sent[j].input.tasks = last.calls[i].fields.taskArns
              /\ last.sent[j].input.cluster = last.calls[i].fields.clusterName

\* the kind the fields of a query give it
KindOfQuery(query) ==
  IF "desiredStatus" \in DOMAIN query THEN "ListTasksCommand"
  ELSE IF "cluster" \in DOMAIN query /\ "taskArns" \notin DOMAIN query THEN "ListServicesCommand"
  ELSE IF DOMAIN query \subseteq {"nextToken"} THEN "ListClustersCommand"
  ELSE "none"

\* C32: paginateClientCommand gives every query exactly one kind by its
\* fields: list-tasks when it has desiredStatus (whatever else it has),
\* list-services when it has cluster and neither desiredStatus nor taskArns,
\* list-clusters when it has no field besides the continuation token; every
\* request of the call is of that kind, and a query of any other shape ends
\* with 'Unknown ECS client input type' and no request sent.
C32_QueryKinds ==
  (last.op = "paginateClientCommand") =>
    LET kind == KindOfQuery(last.arg.commandInput)
    IN IF kind = "none"
       THEN last.error = UNKNOWN_INPUT /\ last.sent = <<>> /\ last.ret = <<>>
       ELSE /\ last.error # UNKNOWN_INPUT
            /\ Len(last.sent) >= 1
            /\ \A j \in 1..Len(last.sent) : last.sent[j].command = kind

C32_Witness ==
  /\ last.op = "paginateClientCommand"
  /\ last.arg.commandInput = [taskArns |-> <<"abc123">>, cluster |-> "prod"]
  /\ Len(last.arg.pages) = 2
  /\ last.error = UNKNOWN_INPUT

\* C33: after resolveTask has succeeded, the task-definition ARN in the shared
\* target state is the task definition of the task whose short ID is stored
\* next to it, in the auto-select branch and in the prompted branch, in
\* whatever order the describe call returned the tasks.
C33_TaskDefinitionOfSelectedTask ==
  (last.op = "resolveTask" /\ last.error = undefined) =>
    /\ target.taskId = taskId
    /\ \E i \in 1..Len(last.results[2]) :
         /\ IdOfTaskArn(last.results[2][i].taskArn) = target.taskId
         /\ last.results[2][i].taskDefinitionArn = target.taskDefinition

\* C34: in one run of main's pipeline the shared state changes monotonically:
\* no step modifies rawArgs, a field of target that holds a value keeps it in
\* every later step, and an entry of processedArgs that was recorded stays
\* recorded with the same value and the same skippable flag.
C34_MonotonicSharedState ==
  [][/\ rawArgs' = rawArgs
     /\ \A field \in DOMAIN target :
          target[field] # undefined => target'[field] = target[field]
     /\ \A i \in 1..Len(processedArgs) :
          \E j \in 1..Len(processedArgs') : processedArgs'[j] = processedArgs[i]
     /\ \A j, k \in 1..Len(processedArgs') :
          processedArgs'[j].key = processedArgs'[k].key => j = k]_vars

C34_Witness ==
  /\ last.op = "runSession"
  /\ \A field \in DOMAIN target : target[field] # undefined
  /\ {processedArgs[i].key : i \in 1..Len(processedArgs)} =
       {"cluster", "service", "container", "db-host", "port", "local-port"}
  /\ rawArgs["db-host"] = undefined

C36_ContainerResolvedIsComplete ==
  (HasArg(processedArgs, "service") /\ HasArg(processedArgs, "container")) =>
    /\ ~Falsy(clusterName)
    /\ ~Falsy(taskId)
    /\ ~Falsy(containerRuntimeId)
    /\ last.op = "target" => last.error = undefined

\* C37: paginateDescribeTasksRequest leaves the caller's identifier list as it
\* was handed over, whether the call returns or throws: what the caller reads
\* from the list after the call (its length, its first element) is what the
\* caller put there.
C37_CallerListUnchanged ==
  (last.op = "paginateDescribeTasksRequest") =>
    /\ last.results = <<last.arg.rawInput.fields.taskArns>>
    /\ Len(last.results[1]) = Len(last.arg.rawInput.fields.taskArns)
    /\ last.arg.rawInput.fields.taskArns # <<>> =>
         last.results[1] # <<>> /\ last.results[1][1] = last.arg.rawInput.fields.taskArns[1]

\* the number prompt of the last stage, when the stage completed after asking it
NumberAsked ==
  /\ last.op \in {"resolveRemotePort", "resolveLocalPort"}
  /\ last.error = undefined
  /\ Len(last.prompts) = 2
  /\ last.prompts[2].kind = "number"

\* C38: a port stage that completes after the numeric prompt was given a
\* number there and stores the decimal text of that number, in the resolver
\* and in processedArgs; no stage completes on a numeric prompt that yielded
\* no number, so the text of undefined is never a port of the resolver, of
\* processedArgs or of the forwarding payload.
C38_NumericPort ==
  /\ NumberAsked =>
       /\ last.prompts[2].answer.kind = "number"
       /\ LET text == ToString(last.prompts[2].answer.value)
          IN IF last.op = "resolveRemotePort"
             THEN port = text /\ ArgOf(processedArgs, "port").value = text
             ELSE localPort = text /\ ArgOf(processedArgs, "local-port").value = text
  /\ port # "'undefined'"
  /\ localPort # "'undefined'"
  /\ \A i \in 1..Len(processedArgs) : processedArgs[i].value # "'undefined'"
  /\ (last.op = "forwardingParams" /\ last.error = undefined) =>
       /\ last.ret = Payload(<<dbHost>>, <<port>>, <<localPort>>)
       /\ \A host \in {dbHost}, other \in {port, localPort} :
            /\ last.ret # Payload(<<host>>, <<"'undefined'">>, <<other>>)
            /\ last.ret # Payload(<<host>>, <<other>>, <<"'undefined'">>)

====
